---- MODULE Spec2Model ----
(***************************************************************************)
(* Model of the transcript packing engine of                               *)
(* backend/utils/transcript.py (TranscriptProcessor): the processing       *)
(* routine process_channel_transcripts with its cancellation checkpoints,  *)
(* the three packing strategies (_process_by_token_limit,                  *)
(* _process_by_file_limit, the both-limits branch with                     *)
(* _process_batch_by_token_limit and _combine_excess_files) and the files  *)
(* they write.                                                             *)
(*                                                                         *)
(* A transcript record is [video_id, token_count]; an output artifact is   *)
(* [file_path, videos, token_count] where videos is the sequence of video  *)
(* ids (a title is a function of its id).  The file system maps each       *)
(* path written by the run to the sequence of video ids whose transcripts  *)
(* the file holds.                                                         *)
(***************************************************************************)
EXTENDS Integers, Sequences, FiniteSets, TLC

VARIABLES
    task,                 \* the ProcessingTask of the run (routes.py), or NoTask
    polled,               \* history: the progress/total pairs a poll could read during the last step
    videos,               \* the videos argument (re-bound by the filter, line 232)
    cfg,                  \* the other arguments of process_channel_transcripts
    unwritable,           \* output paths on which open(path, 'w') raises
    undeletable,          \* output paths on which os.remove raises
    write_errors,         \* history: the paths whose open(path, 'w') raised
    pc,                   \* position of the processing routine
    cancel_flag,          \* cancel_flag['cancelled']
    cancel_before_start,  \* history: the flag was set before the routine's first step
    fi,                   \* index i of the filter loop (line 215)
    videos_with_transcripts,
    futures,              \* future_to_video: state of each submitted worker
    all_transcripts,
    results,
    fs,                   \* output files on disk: path -> video ids held
    pk,                   \* frame of the packer being executed
    combined_files,
    excess_content,
    bi                    \* index i of the both-limits batch loop (line 412)

vars == <<task, polled, videos, cfg, unwritable, undeletable, write_errors, pc,
          cancel_flag, cancel_before_start, fi,
          videos_with_transcripts, futures, all_transcripts, results, fs, pk,
          combined_files, excess_content, bi>>

----------------------------------------------------------------------------
(* Program constants *)

MAX_TOKENS_PER_FILE == 150000

SOLO_THRESHOLD == 10000

BATCH_SIZE == 50

MAX_WORKERS == 10

(* Bounds of the model *)

MaxVideos == 2

MaxRecords == 4

MaxExtra == 1

MaxFileLimit == 2

MaxBothRecords == 5
\* longest text given to _estimate_token_count on its own
MaxTextLen == 12

----------------------------------------------------------------------------
(* Generic helpers *)

Min(a, b) == IF a < b THEN a ELSE b

Max(a, b) == IF a > b THEN a ELSE b

RECURSIVE SumTokens(_)
SumTokens(s) ==
    IF s = <<>> THEN 0 ELSE s[1].token_count + SumTokens(Tail(s))

RECURSIVE ConcatVideos(_)
ConcatVideos(files) ==
    IF files = <<>> THEN <<>> ELSE files[1].videos \o ConcatVideos(Tail(files))

Ids(ts) == [k \in 1..Len(ts) |-> ts[k].video_id]

Range(s) == {s[k] : k \in 1..Len(s)}

\* all sequences over S of length 1..n
SeqsUpTo(S, n) == UNION {[1..k -> S] : k \in 1..n}

\* Python slice s[a:b] with 0-based, end-exclusive, clamped indices
Slice(s, a, b) == SubSeq(s, a + 1, Min(b, Len(s)))

----------------------------------------------------------------------------
(* Files and artifacts *)

Path(kind, n) == [kind |-> kind, n |-> n]

Artifact(path, vids, tokens) ==
    [file_path |-> path, videos |-> vids, token_count |-> tokens]

\* the None that _create_all_in_one_file returns for an empty list
NoneArtifact == Artifact(Path("None", 0), <<>>, 0)

\* open(file_path, 'w') ... write: creates or replaces the whole file
WriteFile(files, path, content) ==
    [p \in (DOMAIN files) \cup {path} |-> IF p = path THEN content ELSE files[p]]

\* os.remove(file_path)
RemoveFile(files, path) ==
    [p \in (DOMAIN files) \ {path} |-> files[p]]

NoFiles == [p \in {} |-> <<>>]

\* the files of the artifacts are opened and written in the order given;
\* the first open(file_path, 'w') that raises ends the writing: the file
\* system then, the number of files written and the path that raised
RECURSIVE WriteUntilError(_, _)
WriteUntilError(files, artifacts) ==
    IF artifacts = <<>> THEN [fs |-> files, written |-> 0, raised |-> {}]
    ELSE IF artifacts[1].file_path \in unwritable
    THEN [fs |-> files, written |-> 0, raised |-> {artifacts[1].file_path}]
    ELSE LET w == WriteUntilError(
                     WriteFile(files, artifacts[1].file_path, artifacts[1].videos),
                     Tail(artifacts))
         IN [w EXCEPT !.written = @ + 1]

IdlePacker == [fn |-> "none", phase |-> "none"]

EmptyBatch == [videos |-> <<>>, token_count |-> 0]

EmptyResults ==
    [successful |-> <<>>, failed |-> <<>>, output_files |-> <<>>,
     warnings |-> <<>>, cancelled |-> FALSE]

----------------------------------------------------------------------------
(* _create_all_in_one_file: the all_transcripts.txt rollup *)

RollupPath == Path("all_transcripts", 0)

\* variant: the all-in-one file holds the first record only
CreateAllInOneFileFirstRecord(transcripts) ==
    IF transcripts = <<>> THEN NoneArtifact
    ELSE Artifact(RollupPath, Ids(SubSeq(transcripts, 1, 1)),
                  SumTokens(SubSeq(transcripts, 1, 1)))

\* _create_all_in_one_file (lines 824-859)
CreateAllInOneFile(transcripts) ==
    IF transcripts = <<>> THEN NoneArtifact
    ELSE Artifact(RollupPath, Ids(transcripts), SumTokens(transcripts))

----------------------------------------------------------------------------
(* Strategy A: _process_by_token_limit                                     *)
(* The frame pk holds the locals of the call: transcripts,                 *)
(* effective_token_limit, batch_size, the batch start i, the position j in *)
(* the batch, current_batch, file_index and output_files.                  *)

CombinedPath(file_index) == Path("combined_part", file_index)

LargePath(video_id) == Path("large_video", video_id)

\* the state a record iteration works on
PackState(frame, files) ==
    [current_batch |-> frame.current_batch, file_index |-> frame.file_index,
     output_files |-> frame.output_files, fs |-> files]

\* variant: the index is not advanced when a group is written
FlushBatchKeepsIndex(st) ==
    [current_batch |-> EmptyBatch,
     file_index |-> st.file_index,
     output_files |-> Append(st.output_files,
                        Artifact(CombinedPath(st.file_index),
                                 st.current_batch.videos,
                                 st.current_batch.token_count)),
     fs |-> WriteFile(st.fs, CombinedPath(st.file_index), st.current_batch.videos)]

\* write current_batch to combined_part_{file_index}.txt, list it, start a
\* new batch (lines 545-567 and 590-612)
FlushBatch(st) ==
    [current_batch |-> EmptyBatch,
     file_index |-> st.file_index + 1,
     output_files |-> Append(st.output_files,
                        Artifact(CombinedPath(st.file_index),
                                 st.current_batch.videos,
                                 st.current_batch.token_count)),
     fs |-> WriteFile(st.fs, CombinedPath(st.file_index), st.current_batch.videos)]

\* variant: the record is appended without its cost being added
AddToBatchKeepsCount(st, t) ==
    [st EXCEPT !.current_batch.videos = Append(@, t.video_id)]

\* add transcript to current batch (lines 614-620)
AddToBatch(st, t) ==
    [st EXCEPT !.current_batch =
        [videos |-> Append(st.current_batch.videos, t.video_id),
         token_count |-> st.current_batch.token_count + t.token_count]]

\* variant: the large file is written without saving the current batch first
LargeTranscriptNoFlush(st, t) ==
    [st EXCEPT
        !.output_files = Append(st.output_files,
                            Artifact(LargePath(t.video_id), <<t.video_id>>,
                                     t.token_count)),
        !.fs = WriteFile(st.fs, LargePath(t.video_id), <<t.video_id>>)]

\* variant: the large transcript is added to the current batch
LargeTranscriptJoinsBatch(st, t) == AddToBatch(st, t)

\* a transcript larger than the limit gets its own large_video file
\* (lines 543-587)
LargeTranscript(st, t) ==
    LET s1 == IF st.current_batch.videos # <<>> THEN FlushBatch(st) ELSE st
    IN [s1 EXCEPT
          !.output_files = Append(s1.output_files,
                              Artifact(LargePath(t.video_id), <<t.video_id>>,
                                       t.token_count)),
          !.fs = WriteFile(s1.fs, LargePath(t.video_id), <<t.video_id>>)]

\* variant: the batch is saved as soon as it would reach the limit
TokenLimitTranscriptSplitsAtLimit(st, t, effective_token_limit) ==
    IF t.token_count > effective_token_limit
    THEN LargeTranscript(st, t)
    ELSE LET breach == st.current_batch.token_count + t.token_count
                           >= effective_token_limit
                       /\ st.current_batch.videos # <<>>
         IN AddToBatch(IF breach THEN FlushBatch(st) ELSE st, t)

\* one iteration of "for transcript in batch" (lines 541-620)
TokenLimitTranscript(st, t, effective_token_limit) ==
    IF t.token_count > effective_token_limit
    THEN LargeTranscript(st, t)
    ELSE LET breach == st.current_batch.token_count + t.token_count
                           > effective_token_limit
                       /\ st.current_batch.videos # <<>>
         IN AddToBatch(IF breach THEN FlushBatch(st) ELSE st, t)

\* "save the last batch if it has content" (lines 622-636)
SaveLastBatch(st) ==
    IF st.current_batch.videos # <<>>
    THEN [st EXCEPT
            !.output_files = Append(st.output_files,
                                Artifact(CombinedPath(st.file_index),
                                         st.current_batch.videos,
                                         st.current_batch.token_count)),
            !.fs = WriteFile(st.fs, CombinedPath(st.file_index),
                             st.current_batch.videos)]
    ELSE st

\* entry of _process_by_token_limit (lines 516-530); range() raises
\* ValueError when its step batch_size is 0
TokenLimitFrame(transcripts, token_limit) ==
    [fn |-> "token_limit",
     phase |-> IF Min(BATCH_SIZE, Len(transcripts)) = 0
               THEN "raised" ELSE "batches",
     transcripts |-> transcripts,
     effective_token_limit |-> Min(token_limit, MAX_TOKENS_PER_FILE),
     batch_size |-> Min(BATCH_SIZE, Len(transcripts)),
     i |-> 0, j |-> 0,
     current_batch |-> EmptyBatch, file_index |-> 1, output_files |-> <<>>]

\* the batch of the current outer iteration: transcripts[i:i+batch_size]
CurrentBatch(frame) == Slice(frame.transcripts, frame.i, frame.i + frame.batch_size)

\* the record loop over a batch (lines 541-620)
RECURSIVE TokenLimitRecords(_, _, _)
TokenLimitRecords(st, batch, effective_token_limit) ==
    IF batch = <<>> THEN st
    ELSE TokenLimitRecords(
             TokenLimitTranscript(st, batch[1], effective_token_limit),
             Tail(batch), effective_token_limit)

\* the batch loop from batch start i on (lines 530-636) on
\* acc = [output_files, fs]
RECURSIVE TokenLimitBatches(_, _, _, _, _)
TokenLimitBatches(transcripts, i, batch_size, effective_token_limit, acc) ==
    IF i >= Len(transcripts) THEN acc
    ELSE LET st == SaveLastBatch(
                     TokenLimitRecords(
                        [current_batch |-> EmptyBatch,
                         file_index |-> Len(acc.output_files) + 1,
                         output_files |-> acc.output_files, fs |-> acc.fs],
                        Slice(transcripts, i, i + batch_size),
                        effective_token_limit))
         IN TokenLimitBatches(transcripts, i + batch_size, batch_size,
                              effective_token_limit,
                              [output_files |-> st.output_files, fs |-> st.fs])

\* _process_by_token_limit as a whole for a non-empty list: the list it
\* returns and the file system after the call
ProcessByTokenLimit(transcripts, token_limit, files) ==
    TokenLimitBatches(transcripts, 0, Min(BATCH_SIZE, Len(transcripts)),
                      Min(token_limit, MAX_TOKENS_PER_FILE),
                      [output_files |-> <<>>, fs |-> files])

\* head of the outer loop body (lines 530-539)
TokenLimitBatchStart ==
    /\ pk.fn = "token_limit" /\ pk.phase = "batches"
    /\ pk.i < Len(pk.transcripts)
    /\ pk' = [pk EXCEPT !.phase = "records", !.j = 0,
                        !.current_batch = EmptyBatch,
                        !.file_index = Len(pk.output_files) + 1]
    /\ UNCHANGED <<task, polled>>
    /\ UNCHANGED <<videos, cfg, unwritable, undeletable, write_errors,
                   pc, cancel_flag, cancel_before_start, fi,
                   videos_with_transcripts, futures, all_transcripts, results,
                   fs, combined_files, excess_content, bi>>

\* one record iteration (lines 541-620)
TokenLimitRecord ==
    /\ pk.fn = "token_limit" /\ pk.phase = "records"
    /\ pk.j < Len(CurrentBatch(pk))
    /\ LET st == TokenLimitTranscript(PackState(pk, fs),
                                      CurrentBatch(pk)[pk.j + 1],
                                      pk.effective_token_limit)
           w == WriteUntilError(fs, SubSeq(st.output_files,
                                           Len(pk.output_files) + 1,
                                           Len(st.output_files)))
       IN IF w.raised = {}
          THEN /\ pk' = [pk EXCEPT !.j = pk.j + 1,
                                   !.current_batch = st.current_batch,
                                   !.file_index = st.file_index,
                                   !.output_files = st.output_files]
               /\ fs' = st.fs
               /\ UNCHANGED <<pc, write_errors>>
          ELSE /\ pk' = [pk EXCEPT
                            !.phase = "raised",
                            !.output_files =
                                SubSeq(st.output_files, 1,
                                       Len(pk.output_files) + w.written)]
               /\ fs' = w.fs
               /\ pc' = "raised"
               /\ write_errors' = write_errors \cup w.raised
    /\ UNCHANGED <<task, polled>>
    /\ UNCHANGED <<videos, cfg, unwritable, undeletable,
                   cancel_flag, cancel_before_start, fi,
                   videos_with_transcripts, futures, all_transcripts, results,
                   combined_files, excess_content, bi>>

\* end of the batch: flush what is left, go to the next batch (lines 622-636)
TokenLimitBatchEnd ==
    /\ pk.fn = "token_limit" /\ pk.phase = "records"
    /\ pk.j = Len(CurrentBatch(pk))
    /\ LET st == SaveLastBatch(PackState(pk, fs))
           w == WriteUntilError(fs, SubSeq(st.output_files,
                                           Len(pk.output_files) + 1,
                                           Len(st.output_files)))
       IN IF w.raised = {}
          THEN /\ pk' = [pk EXCEPT !.phase = "batches",
                                   !.i = pk.i + pk.batch_size,
                                   !.output_files = st.output_files]
               /\ fs' = st.fs
               /\ UNCHANGED <<pc, write_errors>>
          ELSE /\ pk' = [pk EXCEPT !.phase = "raised"]
               /\ fs' = w.fs
               /\ pc' = "raised"
               /\ write_errors' = write_errors \cup w.raised
    /\ UNCHANGED <<task, polled>>
    /\ UNCHANGED <<videos, cfg, unwritable, undeletable,
                   cancel_flag, cancel_before_start, fi,
                   videos_with_transcripts, futures, all_transcripts, results,
                   combined_files, excess_content, bi>>

\* return output_files (line 638)
TokenLimitReturn ==
    /\ pk.fn = "token_limit" /\ pk.phase = "batches"
    /\ pk.i >= Len(pk.transcripts)
    /\ pk' = [pk EXCEPT !.phase = "returned"]
    /\ UNCHANGED <<task, polled>>
    /\ UNCHANGED <<videos, cfg, unwritable, undeletable, write_errors,
                   pc, cancel_flag, cancel_before_start, fi,
                   videos_with_transcripts, futures, all_transcripts, results,
                   fs, combined_files, excess_content, bi>>

----------------------------------------------------------------------------
(* Strategy B: _process_by_file_limit                                      *)
(* The frame holds sorted_transcripts, the loop index k, grouped_transcripts*)
(* (each group [transcripts, token_count]), current_group,                 *)
(* current_group_tokens and output_files.  The fields merged and blocked   *)
(* are history counters of the merge iterations that combined two groups   *)
(* and of those that took the discard branch.                              *)

\* position at which list.sort / sorted (stable) puts x among the items
\* already placed: after every item that does not sort after it
RECURSIVE InsertDesc(_, _)
InsertDesc(sorted, x) ==
    IF sorted = <<>> THEN <<x>>
    ELSE IF sorted[1].token_count >= x.token_count
         THEN <<sorted[1]>> \o InsertDesc(Tail(sorted), x)
         ELSE <<x>> \o sorted

RECURSIVE InsertAsc(_, _)
InsertAsc(sorted, x) ==
    IF sorted = <<>> THEN <<x>>
    ELSE IF sorted[1].token_count <= x.token_count
         THEN <<sorted[1]>> \o InsertAsc(Tail(sorted), x)
         ELSE <<x>> \o sorted

\* sorted(transcripts, key=token_count, reverse=True) (line 670)
RECURSIVE SortedDescending(_)
SortedDescending(s) ==
    IF s = <<>> THEN <<>>
    ELSE InsertDesc(SortedDescending(SubSeq(s, 1, Len(s) - 1)), s[Len(s)])

\* grouped_transcripts.sort(key=token_count) (lines 705, 723)
RECURSIVE SortGroups(_)
SortGroups(s) ==
    IF s = <<>> THEN <<>>
    ELSE InsertAsc(SortGroups(SubSeq(s, 1, Len(s) - 1)), s[Len(s)])

Group(transcripts, tokens) == [transcripts |-> transcripts, token_count |-> tokens]

\* one iteration of the grouping loop (lines 672-693) on
\* g = [grouped_transcripts, current_group, current_group_tokens]
GroupTranscript(g, t) ==
    IF t.token_count > SOLO_THRESHOLD
       \/ g.current_group_tokens + t.token_count > MAX_TOKENS_PER_FILE
    THEN LET flushed == IF g.current_group # <<>>
                        THEN Append(g.grouped_transcripts,
                                    Group(g.current_group, g.current_group_tokens))
                        ELSE g.grouped_transcripts
             emptied == g.current_group # <<>>
         IN [grouped_transcripts |->
                 IF t.token_count > 0
                 THEN Append(flushed, Group(<<t>>, t.token_count))
                 ELSE flushed,
             current_group |-> IF emptied THEN <<>> ELSE g.current_group,
             current_group_tokens |-> IF emptied THEN 0 ELSE g.current_group_tokens]
    ELSE [grouped_transcripts |-> g.grouped_transcripts,
          current_group |-> Append(g.current_group, t),
          current_group_tokens |-> g.current_group_tokens + t.token_count]

\* variant: the remaining group is not added
CloseGroupingDropsLast(g, file_limit) ==
    IF Len(g.grouped_transcripts) > file_limit
    THEN SortGroups(g.grouped_transcripts) ELSE g.grouped_transcripts

\* "add any remaining group", then sort when there are more groups than
\* file_limit (lines 695-705)
CloseGrouping(g, file_limit) ==
    LET groups == IF g.current_group # <<>>
                  THEN Append(g.grouped_transcripts,
                              Group(g.current_group, g.current_group_tokens))
                  ELSE g.grouped_transcripts
    IN IF Len(groups) > file_limit THEN SortGroups(groups) ELSE groups

\* the merge of the two popped groups is within the cap (line 716)
CanCombine(smallest, second_smallest) ==
    smallest.token_count + second_smallest.token_count <= MAX_TOKENS_PER_FILE

\* variant: two groups that cannot be merged are both put back
MergeSmallestKeepsBoth(groups) ==
    LET smallest == groups[1]
        second_smallest == groups[2]
        rest == SubSeq(groups, 3, Len(groups))
    IN IF CanCombine(smallest, second_smallest)
       THEN SortGroups(Append(rest,
                Group(smallest.transcripts \o second_smallest.transcripts,
                      smallest.token_count + second_smallest.token_count)))
       ELSE Append(Append(rest, smallest), second_smallest)

\* one iteration of the merge loop with at least two groups (lines 710-726)
MergeSmallest(groups) ==
    LET smallest == groups[1]
        second_smallest == groups[2]
        rest == SubSeq(groups, 3, Len(groups))
    IN IF CanCombine(smallest, second_smallest)
       THEN SortGroups(Append(rest,
                Group(smallest.transcripts \o second_smallest.transcripts,
                      smallest.token_count + second_smallest.token_count)))
       ELSE Append(rest, second_smallest)

\* the artifact written for group number k (0-based) (lines 732-756)
GroupArtifact(group, k) ==
    Artifact(CombinedPath(k + 1), Ids(group.transcripts), SumTokens(group.transcripts))

\* entry of _process_by_file_limit (lines 651-670)
FileLimitFrame(transcripts, file_limit) ==
    [fn |-> "file_limit",
     phase |-> IF transcripts = <<>> THEN "returned" ELSE "group",
     transcripts |-> transcripts,
     file_limit |-> file_limit,
     sorted_transcripts |-> SortedDescending(transcripts),
     k |-> 0,
     grouped_transcripts |-> <<>>,
     current_group |-> <<>>, current_group_tokens |-> 0,
     merged |-> 0, blocked |-> 0,
     output_files |-> <<>>]

\* one iteration of "for transcript in sorted_transcripts" (lines 672-693)
FileLimitGroup ==
    /\ pk.fn = "file_limit" /\ pk.phase = "group"
    /\ pk.k < Len(pk.sorted_transcripts)
    /\ LET g == GroupTranscript(
                  [grouped_transcripts |-> pk.grouped_transcripts,
                   current_group |-> pk.current_group,
                   current_group_tokens |-> pk.current_group_tokens],
                  pk.sorted_transcripts[pk.k + 1])
       IN pk' = [pk EXCEPT !.k = pk.k + 1,
                           !.grouped_transcripts = g.grouped_transcripts,
                           !.current_group = g.current_group,
                           !.current_group_tokens = g.current_group_tokens]
    /\ UNCHANGED <<task, polled>>
    /\ UNCHANGED <<videos, cfg, unwritable, undeletable, write_errors,
                   pc, cancel_flag, cancel_before_start, fi,
                   videos_with_transcripts, futures, all_transcripts, results,
                   fs, combined_files, excess_content, bi>>

\* after the grouping loop (lines 695-705)
FileLimitGroupEnd ==
    /\ pk.fn = "file_limit" /\ pk.phase = "group"
    /\ pk.k = Len(pk.sorted_transcripts)
    /\ pk' = [pk EXCEPT
                !.phase = "merge",
                !.grouped_transcripts =
                    CloseGrouping([grouped_transcripts |-> pk.grouped_transcripts,
                                   current_group |-> pk.current_group,
                                   current_group_tokens |-> pk.current_group_tokens],
                                  pk.file_limit)]
    /\ UNCHANGED <<task, polled>>
    /\ UNCHANGED <<videos, cfg, unwritable, undeletable, write_errors,
                   pc, cancel_flag, cancel_before_start, fi,
                   videos_with_transcripts, futures, all_transcripts, results,
                   fs, combined_files, excess_content, bi>>

\* variant: the loop stops one group early
MergeContinuesOffByOne(frame) ==
    /\ Len(frame.grouped_transcripts) > frame.file_limit + 1
    /\ Len(frame.grouped_transcripts) >= 2

\* variant: the loop is left when the two smallest groups cannot be merged
MergeContinuesUntilBlocked(frame) ==
    /\ Len(frame.grouped_transcripts) > frame.file_limit
    /\ Len(frame.grouped_transcripts) >= 2
    /\ frame.grouped_transcripts[1].token_count
          + frame.grouped_transcripts[2].token_count <= MAX_TOKENS_PER_FILE

\* the merge loop goes on (lines 708, 710)
MergeContinues(frame) ==
    /\ Len(frame.grouped_transcripts) > frame.file_limit
    /\ Len(frame.grouped_transcripts) >= 2

\* one iteration of the merge loop (lines 708-726)
FileLimitMerge ==
    /\ pk.fn = "file_limit" /\ pk.phase = "merge"
    /\ MergeContinues(pk)
    /\ pk' = [pk EXCEPT
                !.grouped_transcripts = MergeSmallest(pk.grouped_transcripts),
                !.merged = IF CanCombine(pk.grouped_transcripts[1],
                                         pk.grouped_transcripts[2])
                           THEN pk.merged + 1 ELSE pk.merged,
                !.blocked = IF CanCombine(pk.grouped_transcripts[1],
                                          pk.grouped_transcripts[2])
                            THEN pk.blocked ELSE pk.blocked + 1]
    /\ UNCHANGED <<task, polled>>
    /\ UNCHANGED <<videos, cfg, unwritable, undeletable, write_errors,
                   pc, cancel_flag, cancel_before_start, fi,
                   videos_with_transcripts, futures, all_transcripts, results,
                   fs, combined_files, excess_content, bi>>

\* the merge loop ends: the count is within file_limit, or break (727-729)
FileLimitMergeEnd ==
    /\ pk.fn = "file_limit" /\ pk.phase = "merge"
    /\ ~MergeContinues(pk)
    /\ pk' = [pk EXCEPT !.phase = "emit", !.k = 0]
    /\ UNCHANGED <<task, polled>>
    /\ UNCHANGED <<videos, cfg, unwritable, undeletable, write_errors,
                   pc, cancel_flag, cancel_before_start, fi,
                   videos_with_transcripts, futures, all_transcripts, results,
                   fs, combined_files, excess_content, bi>>

\* one iteration of the file creation loop (lines 732-756)
FileLimitEmit ==
    /\ pk.fn = "file_limit" /\ pk.phase = "emit"
    /\ pk.k < Len(pk.grouped_transcripts)
    /\ LET a == GroupArtifact(pk.grouped_transcripts[pk.k + 1], pk.k)
       IN IF a.file_path \notin unwritable
          THEN /\ fs' = WriteFile(fs, a.file_path, a.videos)
               /\ pk' = [pk EXCEPT !.k = pk.k + 1,
                                   !.output_files = Append(pk.output_files, a)]
               /\ UNCHANGED <<pc, write_errors>>
          ELSE /\ pk' = [pk EXCEPT !.phase = "raised"]
               /\ pc' = "raised"
               /\ write_errors' = write_errors \cup {a.file_path}
               /\ UNCHANGED fs
    /\ UNCHANGED <<task, polled>>
    /\ UNCHANGED <<videos, cfg, unwritable, undeletable,
                   cancel_flag, cancel_before_start, fi,
                   videos_with_transcripts, futures, all_transcripts, results,
                   combined_files, excess_content, bi>>

\* return output_files (line 758)
FileLimitReturn ==
    /\ pk.fn = "file_limit" /\ pk.phase = "emit"
    /\ pk.k = Len(pk.grouped_transcripts)
    /\ pk' = [pk EXCEPT !.phase = "returned"]
    /\ UNCHANGED <<task, polled>>
    /\ UNCHANGED <<videos, cfg, unwritable, undeletable, write_errors,
                   pc, cancel_flag, cancel_before_start, fi,
                   videos_with_transcripts, futures, all_transcripts, results,
                   fs, combined_files, excess_content, bi>>

----------------------------------------------------------------------------
(* Strategy C helpers: _process_batch_by_token_limit, _combine_excess_files *)

\* one iteration of "for transcript in batch" (lines 881-913)
BatchTranscript(st, t, token_limit) ==
    LET breach == st.current_batch.token_count + t.token_count > token_limit
                  /\ st.current_batch.videos # <<>>
    IN AddToBatch(IF breach THEN FlushBatch(st) ELSE st, t)

RECURSIVE BatchLoop(_, _, _)
BatchLoop(st, batch, token_limit) ==
    IF batch = <<>> THEN st
    ELSE BatchLoop(BatchTranscript(st, batch[1], token_limit), Tail(batch), token_limit)

\* _process_batch_by_token_limit (lines 861-931): the files listed and the
\* file system after the call
ProcessBatchByTokenLimit(batch, token_limit, files, start_index) ==
    SaveLastBatch(
        BatchLoop([current_batch |-> EmptyBatch, file_index |-> start_index,
                   output_files |-> <<>>, fs |-> files],
                  batch, token_limit))

ExcessPath == Path("excess_content", 0)

\* the loop of _combine_excess_files (lines 952-973) on
\* acc = [videos, token_count, content, fs, raised]: reading a file that is
\* not on disk raises; an os.remove that raises is reported on the console
\* and the file stays (lines 969-973)
RECURSIVE CombineLoop(_, _)
CombineLoop(acc, excess_files) ==
    IF excess_files = <<>> \/ acc.raised THEN acc
    ELSE LET file_info == excess_files[1]
         IN IF file_info.file_path \notin DOMAIN acc.fs
            THEN [acc EXCEPT !.videos = acc.videos \o file_info.videos,
                             !.token_count = acc.token_count + file_info.token_count,
                             !.raised = TRUE]
            ELSE CombineLoop(
                   [videos |-> acc.videos \o file_info.videos,
                    token_count |-> acc.token_count + file_info.token_count,
                    content |-> acc.content \o acc.fs[file_info.file_path],
                    fs |-> IF file_info.file_path \in undeletable
                           THEN acc.fs
                           ELSE RemoveFile(acc.fs, file_info.file_path),
                    raised |-> FALSE],
                   Tail(excess_files))

\* variant: an os.remove that raises makes the call raise
CombineExcessFilesFailsOnRemoveError(excess_files, files) ==
    LET acc == CombineLoop([videos |-> <<>>, token_count |-> 0, content |-> <<>>,
                            fs |-> WriteFile(files, ExcessPath, <<>>),
                            raised |-> FALSE],
                           excess_files)
    IN [artifact |-> Artifact(ExcessPath, acc.videos, acc.token_count),
        fs |-> WriteFile(acc.fs, ExcessPath, acc.content),
        raised |-> acc.raised
                   \/ \E k \in 1..Len(excess_files) :
                         excess_files[k].file_path \in undeletable]

\* _combine_excess_files (lines 933-979) for a non-empty list: the artifact
\* returned, the file system after the call, and whether it raised
CombineExcessFiles(excess_files, files) ==
    LET acc == CombineLoop([videos |-> <<>>, token_count |-> 0, content |-> <<>>,
                            fs |-> WriteFile(files, ExcessPath, <<>>),
                            raised |-> FALSE],
                           excess_files)
    IN [artifact |-> Artifact(ExcessPath, acc.videos, acc.token_count),
        fs |-> WriteFile(acc.fs, ExcessPath, acc.content),
        raised |-> acc.raised]

\* variant: the floor quotient without the clamp to 1
TranscriptsPerFileUnclamped(transcripts, file_limit) ==
    Len(transcripts) \div file_limit

\* transcripts_per_file (line 406)
TranscriptsPerFile(transcripts, file_limit) ==
    Max(1, Len(transcripts) \div file_limit)

\* the artifact of a batch that is within the token limit (lines 451-474)
DirectBatchArtifact(batch, file_index) ==
    Artifact(CombinedPath(file_index), Ids(batch), SumTokens(batch))

\* one iteration of the both-limits loop after its cancellation check
\* (lines 420-474) on b = [combined_files, excess_content, warnings, fs],
\* every file of the batch being writable: the new values, how the
\* iteration ended (next, break or raised), the files the batch wrote and
\* the locals token_limited_files and excess_files (empty when not assigned)
BothLimitsBatch(b, batch, batch_number, token_limit, file_limit) ==
    IF SumTokens(batch) > token_limit
    THEN LET st == ProcessBatchByTokenLimit(batch, token_limit, b.fs, batch_number)
             files == b.combined_files \o st.output_files
         IN IF Len(files) > file_limit
            THEN LET merged == CombineExcessFiles(
                                  SubSeq(files, file_limit + 1, Len(files)), st.fs)
                 IN [combined_files |-> SubSeq(files, 1, file_limit),
                     excess_content |-> IF merged.raised THEN b.excess_content
                                        ELSE <<merged.artifact>>,
                     warnings |-> IF merged.raised THEN b.warnings
                                  ELSE Append(b.warnings, merged.artifact.file_path),
                     fs |-> merged.fs,
                     exit |-> IF merged.raised THEN "raised" ELSE "break",
                     batch_files |-> st.output_files,
                     token_limited_files |-> st.output_files,
                     excess_files |-> SubSeq(files, file_limit + 1, Len(files))]
            ELSE [combined_files |-> files, excess_content |-> b.excess_content,
                  warnings |-> b.warnings, fs |-> st.fs, exit |-> "next",
                  batch_files |-> st.output_files,
                  token_limited_files |-> st.output_files,
                  excess_files |-> <<>>]
    ELSE LET a == DirectBatchArtifact(batch, batch_number)
         IN [combined_files |-> Append(b.combined_files, a),
             excess_content |-> b.excess_content,
             warnings |-> b.warnings,
             fs |-> WriteFile(b.fs, a.file_path, a.videos),
             exit |-> "next",
             batch_files |-> <<a>>,
             token_limited_files |-> <<>>,
             excess_files |-> <<>>]

----------------------------------------------------------------------------
(* ProcessingTask (routes.py) and the progress callback                    *)
(* task is NoTask in a run without progress_callback; otherwise it holds   *)
(* the fields of the task; task.cancel_flag is the variable cancel_flag.   *)

NoTask == [task_id |-> "None"]

\* task.results before the routine has returned
NoResults == [none |-> TRUE]

\* ProcessingTask.__init__
NewTask ==
    [task_id |-> "task", progress |-> 0, total |-> 0,
     status |-> "Initializing...", results |-> NoResults,
     completed |-> FALSE, cancelled |-> FALSE]

\* a run without progress_callback
NoCallback == task = NoTask /\ polled = {}

\* the arguments of one call progress_callback(current, total, status)
Call(current, total, status) ==
    [current |-> current, total |-> total, status |-> status]

\* ProcessingTask.update_progress: three assignments in this order
UpdateProgress(t, call) ==
    [t EXCEPT !.progress = call.current, !.total = call.total,
              !.status = call.status]

\* the progress/total pairs of the task after each assignment of
\* update_progress
PolledDuring(t, call) ==
    {<<call.current, t.total>>, <<call.current, call.total>>}

RECURSIVE AfterCalls(_, _)
AfterCalls(t, calls) ==
    IF calls = <<>> THEN t
    ELSE AfterCalls(UpdateProgress(t, Head(calls)), Tail(calls))

RECURSIVE PolledOver(_, _)
PolledOver(t, calls) ==
    IF calls = <<>> THEN {}
    ELSE PolledDuring(t, Head(calls))
            \cup PolledOver(UpdateProgress(t, Head(calls)), Tail(calls))

\* if progress_callback: progress_callback(...), for the calls of one step
Report(calls) ==
    IF task = NoTask \/ calls = <<>>
    THEN UNCHANGED <<task, polled>>
    ELSE /\ task' = AfterCalls(task, calls)
         /\ polled' = PolledOver(task, calls)

\* processed_count (lines 207, 270, 298); it equals the index i of the
\* as_completed loop
ProcessedCount == Cardinality({k \in DOMAIN futures : futures[k] = "consumed"})

\* len(videos): the name videos is the argument, re-bound by the filter
\* (line 232), until the both-limits loop re-binds it to the list of a
\* batch that is within the token limit (line 455)
LenVideos == IF pk.fn = "both_limits" THEN Len(pk.videos) ELSE Len(videos)

\* progress_callback(processed_count, len(videos), "Operation cancelled")
CancelledCall == Call(ProcessedCount, LenVideos, "Operation cancelled")

----------------------------------------------------------------------------
(* process_channel_transcripts: the processing routine                     *)
(* pc: start, filter, submit, consume, shutdown, pre_pack, single,         *)
(* channel, rollup, combined, token_limit, file_limit, both, both_end,     *)
(* final, done (results returned), raised (an exception left the routine). *)
(* An action that begins with a cancellation check models the check and    *)
(* the code up to the next check or call.                                  *)

\* variant: the report is returned without the cancelled mark
ReturnUnmarked(r) == r

\* results['cancelled'] = True; return results
Cancelled(r) == [r EXCEPT !.cancelled = TRUE]

\* lines 154-211: set-up, then the filter loop or the download
Start ==
    /\ pc = "start"
    /\ pc' = IF cfg.filter_has_transcript THEN "filter" ELSE "submit"
    /\ Report(<<Call(0, Len(videos), "Checking for transcripts...")>>)
    /\ UNCHANGED <<videos, cfg, unwritable, undeletable, write_errors,
                   cancel_flag, cancel_before_start, fi,
                   videos_with_transcripts, futures, all_transcripts, results,
                   fs, pk, combined_files, excess_content, bi>>

\* one iteration of the filter loop (lines 215-229)
FilterVideo ==
    /\ pc = "filter"
    /\ fi < Len(videos)
    /\ IF cancel_flag
       THEN /\ results' = Cancelled(results)
            /\ pc' = "done"
            /\ UNCHANGED <<fi, videos_with_transcripts>>
       ELSE /\ videos_with_transcripts' =
                   IF videos[fi + 1].listed
                   THEN Append(videos_with_transcripts, videos[fi + 1])
                   ELSE videos_with_transcripts
            /\ fi' = fi + 1
            /\ UNCHANGED <<results, pc>>
    /\ Report(IF cancel_flag
              THEN <<Call(fi, Len(videos), "Operation cancelled")>>
              ELSE <<Call(fi + 1, Len(videos), "Checking transcripts...")>>)
    /\ UNCHANGED <<videos, cfg, unwritable, undeletable, write_errors,
                   cancel_flag, cancel_before_start, futures,
                   all_transcripts, fs, pk, combined_files, excess_content, bi>>

\* after the filter loop: videos = videos_with_transcripts (lines 231-236)
FilterDone ==
    /\ pc = "filter"
    /\ fi = Len(videos)
    /\ videos' = videos_with_transcripts
    /\ pc' = "submit"
    /\ Report(<<Call(0, Len(videos_with_transcripts),
                     "Starting transcript download...")>>)
    /\ UNCHANGED <<cfg, unwritable, undeletable, write_errors,
                   cancel_flag, cancel_before_start, fi,
                   videos_with_transcripts, futures, all_transcripts, results,
                   fs, pk, combined_files, excess_content, bi>>

\* max_workers (line 240); ThreadPoolExecutor rejects a width of 0
PoolWidth(n) == Min(MAX_WORKERS, n)

\* lines 240-248: the pool is created and one worker per video submitted
Submit ==
    /\ pc = "submit"
    /\ IF PoolWidth(Len(videos)) <= 0
       THEN /\ pc' = "raised"
            /\ UNCHANGED futures
       ELSE /\ pc' = "consume"
            /\ futures' = [k \in 1..Len(videos) |-> "running"]
    /\ UNCHANGED <<task, polled>>
    /\ UNCHANGED <<videos, cfg, unwritable, undeletable, write_errors,
                   cancel_flag, cancel_before_start, fi,
                   videos_with_transcripts, all_transcripts, results, fs, pk,
                   combined_files, excess_content, bi>>

\* what _process_single_video returns (lines 1047-1086): the download of
\* a transcript that cannot be had returns None or raises
WorkerResult(video, flag, raises) ==
    IF flag THEN "cancelled"
    ELSE IF video.downloadable THEN "success"
    ELSE IF raises THEN "error" ELSE "failed"

\* _process_single_video in a pool thread
ProcessSingleVideo(k) ==
    /\ pc \in {"consume", "shutdown"}
    /\ futures[k] = "running"
    /\ \E raises \in BOOLEAN :
          futures' = [futures EXCEPT
                        ![k] = WorkerResult(videos[k], cancel_flag, raises)]
    /\ UNCHANGED <<task, polled>>
    /\ UNCHANGED <<videos, cfg, unwritable, undeletable, write_errors,
                   pc, cancel_flag, cancel_before_start, fi,
                   videos_with_transcripts, all_transcripts, results, fs, pk,
                   combined_files, excess_content, bi>>

Transcript(video) == [video_id |-> video.id, token_count |-> video.token_count]

FailedEntry(video, result) ==
    [id |-> video.id,
     reason |-> IF result = "cancelled" THEN "Operation cancelled"
                ELSE IF result = "error" THEN "Error"
                ELSE "Transcript not available"]

\* variant: a fetch that raised leaves no entry in the report
RecordResultSkipsError(r, video, result) ==
    IF result = "success"
    THEN [r EXCEPT !.successful = Append(@, video.id)]
    ELSE IF result = "error" THEN r
    ELSE [r EXCEPT !.failed = Append(@, FailedEntry(video, result))]

\* the report after the result of one video is processed (lines 274-307)
RecordResult(r, video, result) ==
    IF result = "success"
    THEN [r EXCEPT !.successful = Append(@, video.id)]
    ELSE [r EXCEPT !.failed = Append(@, FailedEntry(video, result))]

\* variant: the loop reads the finished future without checking the flag
ConsumeUnchecked(k) ==
    /\ pc = "consume"
    /\ futures[k] \in {"success", "failed", "error", "cancelled"}
    /\ futures' = [futures EXCEPT ![k] = "consumed"]
    /\ results' = RecordResult(results, videos[k], futures[k])
    /\ all_transcripts' =
           IF futures[k] = "success"
           THEN Append(all_transcripts, Transcript(videos[k]))
           ELSE all_transcripts
    /\ UNCHANGED <<task, polled>>
    /\ UNCHANGED <<videos, cfg, unwritable, undeletable, write_errors,
                   pc, cancel_flag, cancel_before_start, fi,
                   videos_with_transcripts, fs, pk, combined_files,
                   excess_content, bi>>

\* one iteration of the as_completed loop on a finished future (lines 251-294)
Consume(k) ==
    /\ pc = "consume"
    /\ futures[k] \in {"success", "failed", "error", "cancelled"}
    /\ IF cancel_flag
       THEN /\ results' = Cancelled(results)
            /\ pc' = "shutdown"
            /\ UNCHANGED <<futures, all_transcripts>>
       ELSE /\ futures' = [futures EXCEPT ![k] = "consumed"]
            /\ results' = RecordResult(results, videos[k], futures[k])
            /\ all_transcripts' =
                   IF futures[k] = "success"
                   THEN Append(all_transcripts, Transcript(videos[k]))
                   ELSE all_transcripts
            /\ UNCHANGED pc
    /\ Report(IF cancel_flag THEN <<CancelledCall>>
              ELSE <<Call(ProcessedCount + 1, Len(videos), "Processing video...")>>)
    /\ UNCHANGED <<videos, cfg, unwritable, undeletable, write_errors,
                   cancel_flag, cancel_before_start, fi,
                   videos_with_transcripts, fs, pk, combined_files,
                   excess_content, bi>>

\* the as_completed loop is exhausted and the pool is left (line 308)
ExitPool ==
    /\ pc = "consume"
    /\ \A k \in DOMAIN futures : futures[k] = "consumed"
    /\ pc' = "pre_pack"
    /\ UNCHANGED <<task, polled>>
    /\ UNCHANGED <<videos, cfg, unwritable, undeletable, write_errors,
                   cancel_flag, cancel_before_start, fi,
                   videos_with_transcripts, futures, all_transcripts, results,
                   fs, pk, combined_files, excess_content, bi>>

\* return inside the with block (line 260): the pool waits for its running
\* workers, then the routine returns
Shutdown ==
    /\ pc = "shutdown"
    /\ \A k \in DOMAIN futures : futures[k] # "running"
    /\ pc' = "done"
    /\ UNCHANGED <<task, polled>>
    /\ UNCHANGED <<videos, cfg, unwritable, undeletable, write_errors,
                   cancel_flag, cancel_before_start, fi,
                   videos_with_transcripts, futures, all_transcripts, results,
                   fs, pk, combined_files, excess_content, bi>>

\* "check for cancellation before file processing" (lines 309-321)
PrePack ==
    /\ pc = "pre_pack"
    /\ IF cancel_flag
       THEN /\ results' = Cancelled(results)
            /\ pc' = "done"
       ELSE /\ pc' = IF cfg.is_single_video THEN "single" ELSE "channel"
            /\ UNCHANGED results
    /\ Report(IF cancel_flag THEN <<CancelledCall>>
              ELSE <<Call(ProcessedCount, LenVideos,
                          "Processing transcripts into files...")>>)
    /\ UNCHANGED <<videos, cfg, unwritable, undeletable, write_errors,
                   cancel_flag, cancel_before_start, fi,
                   videos_with_transcripts, futures, all_transcripts, fs, pk,
                   combined_files, excess_content, bi>>

IndividualPath(video_id) == Path("individual", video_id)

\* what _write_transcript_file returns (lines 794-822)
IndividualArtifact(t) ==
    Artifact(IndividualPath(t.video_id), <<t.video_id>>, t.token_count)

\* the single-video branch (lines 321-347)
SingleFile ==
    /\ pc = "single"
    /\ IF all_transcripts # <<>>
       THEN LET a == IndividualArtifact(all_transcripts[1])
            IN IF a.file_path \notin unwritable
               THEN /\ fs' = WriteFile(fs, a.file_path, a.videos)
                    /\ results' = [results EXCEPT !.output_files = Append(@, a)]
                    /\ pc' = "final"
                    /\ UNCHANGED write_errors
               ELSE /\ pc' = "raised"
                    /\ write_errors' = write_errors \cup {a.file_path}
                    /\ UNCHANGED <<fs, results>>
       ELSE /\ pc' = "final"
            /\ UNCHANGED <<fs, results, write_errors>>
    /\ Report(<<Call(ProcessedCount, LenVideos, "Creating transcript file...")>>)
    /\ UNCHANGED <<videos, cfg, unwritable, undeletable,
                   cancel_flag, cancel_before_start, fi,
                   videos_with_transcripts, futures, all_transcripts, pk,
                   combined_files, excess_content, bi>>

\* the orders in which as_completed can yield n writers
Orders(n) == {f \in [1..n -> 1..n] : \A a, b \in 1..n : f[a] = f[b] => a = b}

RECURSIVE WriteAll(_, _)
WriteAll(files, artifacts) ==
    IF artifacts = <<>> THEN files
    ELSE WriteAll(WriteFile(files, artifacts[1].file_path, artifacts[1].videos),
                  Tail(artifacts))

\* _process_individual_files (lines 760-792): the files listed when the
\* writers complete in the given order; a writer that raised is reported
\* on the console and its file is left out (lines 784-790)
ProcessIndividualFiles(transcripts, order) ==
    SelectSeq([k \in 1..Len(transcripts) |->
                  IndividualArtifact(transcripts[order[k]])],
              LAMBDA a : a.file_path \notin unwritable)

\* the channel branch up to the individual files (lines 352-364); the pool
\* of _process_individual_files is created with min(10, batch_size) workers
IndividualFiles ==
    /\ pc = "channel"
    /\ IF cancel_flag
       THEN /\ results' = Cancelled(results)
            /\ pc' = "done"
            /\ UNCHANGED <<fs, write_errors>>
       ELSE IF cfg.output_style \in {"individual", "both"}
            THEN IF Min(10, Min(BATCH_SIZE, Len(all_transcripts))) <= 0
                 THEN /\ pc' = "raised"
                      /\ UNCHANGED <<fs, results, write_errors>>
                 ELSE \E order \in Orders(Len(all_transcripts)) :
                        LET individual_files ==
                                ProcessIndividualFiles(all_transcripts, order)
                        IN /\ fs' = WriteAll(fs, individual_files)
                           /\ results' = [results EXCEPT
                                   !.output_files = @ \o individual_files]
                           /\ write_errors' = write_errors \cup
                                 {p \in unwritable :
                                     \E k \in 1..Len(all_transcripts) :
                                        p = IndividualPath(
                                               all_transcripts[k].video_id)}
                           /\ pc' = "rollup"
            ELSE /\ pc' = "rollup"
                 /\ UNCHANGED <<fs, results, write_errors>>
    /\ Report(IF cancel_flag THEN <<CancelledCall>>
              ELSE IF cfg.output_style \in {"individual", "both"}
              THEN <<Call(ProcessedCount, LenVideos, "Creating individual files...")>>
              ELSE <<>>)
    /\ UNCHANGED <<videos, cfg, unwritable, undeletable,
                   cancel_flag, cancel_before_start, fi,
                   videos_with_transcripts, futures, all_transcripts, pk,
                   combined_files, excess_content, bi>>

\* variant: the all-in-one file is created without the check before it
RollupUnchecked ==
    /\ pc = "rollup"
    /\ LET all_in_one_file == CreateAllInOneFile(all_transcripts)
       IN IF all_transcripts # <<>> /\ RollupPath \in unwritable
          THEN /\ pc' = "raised"
               /\ write_errors' = write_errors \cup {RollupPath}
               /\ UNCHANGED <<fs, results>>
          ELSE /\ fs' = IF all_transcripts = <<>> THEN fs
                        ELSE WriteFile(fs, all_in_one_file.file_path,
                                       all_in_one_file.videos)
               /\ results' = [results EXCEPT
                                !.output_files = Append(@, all_in_one_file)]
               /\ pc' = IF cfg.output_style \in {"combined", "both"}
                        THEN "combined" ELSE "final"
               /\ UNCHANGED write_errors
    /\ Report(<<Call(ProcessedCount, LenVideos,
                     "Creating combined file with all transcripts...")>>)
    /\ UNCHANGED <<videos, cfg, unwritable, undeletable,
                   cancel_flag, cancel_before_start, fi,
                   videos_with_transcripts, futures, all_transcripts, pk,
                   combined_files, excess_content, bi>>

\* the all-in-one file (lines 366-380)
Rollup ==
    /\ pc = "rollup"
    /\ IF cancel_flag
       THEN /\ results' = Cancelled(results)
            /\ pc' = "done"
            /\ UNCHANGED <<fs, write_errors>>
       ELSE LET all_in_one_file == CreateAllInOneFile(all_transcripts)
            IN IF all_transcripts # <<>> /\ RollupPath \in unwritable
               THEN /\ pc' = "raised"
                    /\ write_errors' = write_errors \cup {RollupPath}
                    /\ UNCHANGED <<fs, results>>
               ELSE /\ fs' = IF all_transcripts = <<>> THEN fs
                             ELSE WriteFile(fs, all_in_one_file.file_path,
                                            all_in_one_file.videos)
                    /\ results' = [results EXCEPT
                                     !.output_files = Append(@, all_in_one_file)]
                    /\ pc' = IF cfg.output_style \in {"combined", "both"}
                             THEN "combined" ELSE "final"
                    /\ UNCHANGED write_errors
    /\ Report(IF cancel_flag THEN <<CancelledCall>>
              ELSE <<Call(ProcessedCount, LenVideos,
                          "Creating combined file with all transcripts...")>>)
    /\ UNCHANGED <<videos, cfg, unwritable, undeletable,
                   cancel_flag, cancel_before_start, fi,
                   videos_with_transcripts, futures, all_transcripts, pk,
                   combined_files, excess_content, bi>>

\* variant: the file limit alone selects the both-limits branch
BothLimitsFileOnly(c) == c.file_limit # 0

\* both limits are supplied (line 401: None and 0 are absent)
BothLimits(c) == c.token_limit # 0 /\ c.file_limit # 0

\* the combined files, up to the call of the packer (lines 380-410, 480-484)
CombinedFiles ==
    /\ pc = "combined"
    /\ IF cancel_flag
       THEN /\ results' = Cancelled(results)
            /\ pc' = "done"
            /\ UNCHANGED <<pk, combined_files, excess_content, bi>>
       ELSE /\ UNCHANGED results
            /\ IF cfg.output_type = "token_limit"
                  \/ (cfg.output_type = "both" /\ ~BothLimits(cfg))
               THEN /\ pk' = TokenLimitFrame(all_transcripts, cfg.limit_value)
                    /\ pc' = IF pk'.phase = "raised"
                             THEN "raised" ELSE "token_limit"
                    /\ UNCHANGED <<combined_files, excess_content, bi>>
               ELSE IF cfg.output_type = "file_limit"
               THEN /\ pc' = "file_limit"
                    /\ pk' = FileLimitFrame(all_transcripts, cfg.limit_value)
                    /\ UNCHANGED <<combined_files, excess_content, bi>>
               ELSE IF cfg.output_type = "both"
               THEN /\ pc' = IF all_transcripts = <<>> THEN "both_end" ELSE "both"
                    /\ combined_files' = <<>>
                    /\ excess_content' = <<>>
                    /\ bi' = 0
                    /\ UNCHANGED pk
               ELSE /\ pc' = "final"
                    /\ UNCHANGED <<pk, combined_files, excess_content, bi>>
    /\ Report(IF cancel_flag THEN <<CancelledCall>>
              ELSE IF cfg.output_type = "token_limit"
              THEN <<Call(ProcessedCount, LenVideos,
                          "Creating token-limited files...")>>
              ELSE IF cfg.output_type = "file_limit"
              THEN <<Call(ProcessedCount, LenVideos,
                          "Creating file-limited output...")>>
              ELSE IF cfg.output_type = "both" /\ BothLimits(cfg)
              THEN <<Call(ProcessedCount, LenVideos,
                          "Processing with both token and file limits...")>>
              ELSE IF cfg.output_type = "both"
              THEN <<Call(ProcessedCount, LenVideos,
                          "Creating token-limited files (default)...")>>
              ELSE <<>>)
    /\ UNCHANGED <<videos, cfg, unwritable, undeletable, write_errors,
                   cancel_flag, cancel_before_start, fi,
                   videos_with_transcripts, futures, all_transcripts, fs>>

\* combined_files = self._process_by_token_limit(...);
\* results['output_files'].extend(combined_files) (lines 392-393, 484-485)
CollectTokenLimit ==
    /\ pc = "token_limit"
    /\ pk.fn = "token_limit" /\ pk.phase = "returned"
    /\ combined_files' = pk.output_files
    /\ results' = [results EXCEPT !.output_files = @ \o pk.output_files]
    /\ pc' = "final"
    /\ UNCHANGED <<task, polled>>
    /\ UNCHANGED <<videos, cfg, unwritable, undeletable, write_errors,
                   cancel_flag, cancel_before_start, fi,
                   videos_with_transcripts, futures, all_transcripts, fs, pk,
                   excess_content, bi>>

\* combined_files = self._process_by_file_limit(...);
\* results['output_files'].extend(combined_files) (lines 397-398)
CollectFileLimit ==
    /\ pc = "file_limit"
    /\ pk.fn = "file_limit" /\ pk.phase = "returned"
    /\ combined_files' = pk.output_files
    /\ results' = [results EXCEPT !.output_files = @ \o pk.output_files]
    /\ pc' = "final"
    /\ UNCHANGED <<task, polled>>
    /\ UNCHANGED <<videos, cfg, unwritable, undeletable, write_errors,
                   cancel_flag, cancel_before_start, fi,
                   videos_with_transcripts, futures, all_transcripts, fs, pk,
                   excess_content, bi>>

\* the locals of an iteration of the both-limits loop, kept in pk: the
\* batch, its number, the result of _process_batch_by_token_limit, the
\* argument of _combine_excess_files, the file system at that call and
\* the ids of the list that the name videos is bound to (line 455)
BothLimitsFrame(phase, batch, batch_number, token_limited_files, excess_files, files, vs) ==
    [fn |-> "both_limits", phase |-> phase, batch |-> batch,
     batch_number |-> batch_number,
     token_limited_files |-> token_limited_files,
     excess_files |-> excess_files, files |-> files, videos |-> vs]

\* one iteration of the both-limits loop (lines 412-474); an open() that
\* raises, for a file of the batch or for excess_content.txt, leaves the
\* routine
BothBatch ==
    /\ pc = "both"
    /\ bi < Len(all_transcripts)
    /\ IF cancel_flag
       THEN /\ results' = Cancelled(results)
            /\ pc' = "done"
            /\ Report(<<CancelledCall>>)
            /\ UNCHANGED <<fs, pk, combined_files, excess_content, bi,
                           write_errors>>
       ELSE LET tpf == TranscriptsPerFile(all_transcripts, cfg.file_limit)
                batch == Slice(all_transcripts, bi, bi + tpf)
                b == BothLimitsBatch(
                        [combined_files |-> combined_files,
                         excess_content |-> excess_content,
                         warnings |-> results.warnings, fs |-> fs],
                        batch, (bi \div tpf) + 1, cfg.token_limit,
                        cfg.file_limit)
                w == WriteUntilError(fs, b.batch_files)
                local_videos == IF SumTokens(batch) > cfg.token_limit
                                THEN IF pk.fn = "both_limits" THEN pk.videos
                                     ELSE [k \in 1..Len(videos) |-> videos[k].id]
                                ELSE Ids(batch)
                calls == <<Call(ProcessedCount, LenVideos, "Processing batch...")>>
                         \o IF w.raised = {} /\ b.excess_files # <<>>
                            THEN <<Call(ProcessedCount, LenVideos,
                                        "Processing excess content...")>>
                            ELSE <<>>
            IN /\ Report(calls)
               /\ IF w.raised # {}
                  THEN /\ pc' = "raised"
                       /\ fs' = w.fs
                       /\ write_errors' = write_errors \cup w.raised
                       /\ pk' = BothLimitsFrame("raised", batch, (bi \div tpf) + 1,
                                                <<>>, <<>>, w.fs, local_videos)
                       /\ UNCHANGED <<results, combined_files, excess_content, bi>>
                  ELSE IF b.excess_files # <<>> /\ ExcessPath \in unwritable
                  THEN /\ pc' = "raised"
                       /\ fs' = w.fs
                       /\ write_errors' = write_errors \cup {ExcessPath}
                       /\ pk' = BothLimitsFrame("raised", batch, (bi \div tpf) + 1,
                                                b.token_limited_files,
                                                b.excess_files, w.fs, local_videos)
                       /\ UNCHANGED <<results, combined_files, excess_content, bi>>
                  ELSE /\ combined_files' = b.combined_files
                       /\ excess_content' = b.excess_content
                       /\ results' = [results EXCEPT !.warnings = b.warnings]
                       /\ fs' = b.fs
                       /\ bi' = IF b.exit = "next" THEN bi + tpf ELSE bi
                       /\ pc' = IF b.exit = "raised" THEN "raised"
                                ELSE IF b.exit = "break"
                                        \/ bi + tpf >= Len(all_transcripts)
                                THEN "both_end" ELSE "both"
                       /\ pk' = BothLimitsFrame(b.exit, batch, (bi \div tpf) + 1,
                                                b.token_limited_files,
                                                b.excess_files, w.fs, local_videos)
                       /\ UNCHANGED write_errors
    /\ UNCHANGED <<videos, cfg, unwritable, undeletable,
                   cancel_flag, cancel_before_start, fi,
                   videos_with_transcripts, futures, all_transcripts>>

\* the loop has a next iteration to run (line 412): the enabling condition
\* of BothBatch
BothBatchEnabled == pc = "both" /\ bi < Len(all_transcripts)

\* variant: the excess artifact is listed before the combined files
BothEndExcessFirst ==
    /\ pc = "both_end"
    /\ combined_files' = excess_content \o combined_files
    /\ results' = [results EXCEPT
                     !.output_files = @ \o excess_content \o combined_files]
    /\ pc' = "final"
    /\ UNCHANGED <<task, polled>>
    /\ UNCHANGED <<videos, cfg, unwritable, undeletable, write_errors,
                   cancel_flag, cancel_before_start, fi,
                   videos_with_transcripts, futures, all_transcripts, fs, pk,
                   excess_content, bi>>

\* after the loop (lines 476-479)
BothEnd ==
    /\ pc = "both_end"
    /\ combined_files' = combined_files \o excess_content
    /\ results' = [results EXCEPT
                     !.output_files = @ \o combined_files \o excess_content]
    /\ pc' = "final"
    /\ UNCHANGED <<task, polled>>
    /\ UNCHANGED <<videos, cfg, unwritable, undeletable, write_errors,
                   cancel_flag, cancel_before_start, fi,
                   videos_with_transcripts, futures, all_transcripts, fs, pk,
                   excess_content, bi>>

\* variant: the routine clears the flag when it returns
FinalResetsFlag ==
    /\ pc = "final"
    /\ pc' = "done"
    /\ cancel_flag' = FALSE
    /\ Report(<<Call(LenVideos, LenVideos, "Processing complete!")>>)
    /\ UNCHANGED <<videos, cfg, unwritable, undeletable, write_errors,
                   cancel_before_start, fi, videos_with_transcripts, futures,
                   all_transcripts, results, fs, pk, combined_files,
                   excess_content, bi>>

\* final progress update and return results (lines 487-491)
Final ==
    /\ pc = "final"
    /\ pc' = "done"
    /\ Report(<<Call(LenVideos, LenVideos, "Processing complete!")>>)
    /\ UNCHANGED <<videos, cfg, unwritable, undeletable, write_errors,
                   cancel_flag, cancel_before_start, fi,
                   videos_with_transcripts, futures, all_transcripts, results,
                   fs, pk, combined_files, excess_content, bi>>

----------------------------------------------------------------------------
(* cancel_task (routes.py): the only writer of the cancellation flag *)

CancelTask ==
    /\ ~cancel_flag \/ (task # NoTask /\ task.status # "Cancelling...")
    /\ cancel_flag' = TRUE
    /\ cancel_before_start' =
          IF cancel_flag THEN cancel_before_start ELSE (pc = "start")
    /\ task' = IF task = NoTask THEN task
               ELSE [task EXCEPT !.cancelled = TRUE, !.status = "Cancelling..."]
    /\ UNCHANGED <<polled, videos, cfg, unwritable, undeletable, write_errors,
                   pc, fi, videos_with_transcripts, futures,
                   all_transcripts, results, fs, pk, combined_files,
                   excess_content, bi>>

----------------------------------------------------------------------------
(* process_videos (routes.py): the thread that runs the routine for a    *)
(* task; pc goes on from done to stored, from raised to handled, and from *)
(* both to ended                                                           *)

\* task.results = results (line 210)
StoreResults ==
    /\ pc = "done"
    /\ task # NoTask
    /\ task' = [task EXCEPT !.results = results]
    /\ pc' = "stored"
    /\ UNCHANGED <<polled, videos, cfg, unwritable, undeletable, write_errors,
                   cancel_flag, cancel_before_start, fi,
                   videos_with_transcripts, futures, all_transcripts, results,
                   fs, pk, combined_files, excess_content, bi>>

\* except Exception as e: task.status = f"Error: {str(e)}" (lines 216-218)
HandleError ==
    /\ pc = "raised"
    /\ task # NoTask
    /\ task' = [task EXCEPT !.status = "Error"]
    /\ pc' = "handled"
    /\ UNCHANGED <<polled, videos, cfg, unwritable, undeletable, write_errors,
                   cancel_flag, cancel_before_start, fi,
                   videos_with_transcripts, futures, all_transcripts, results,
                   fs, pk, combined_files, excess_content, bi>>

\* variant: completed is set after a normal return only
CompleteTaskNotAfterError ==
    /\ pc = "stored"
    /\ task' = [task EXCEPT !.completed = TRUE]
    /\ pc' = "ended"
    /\ UNCHANGED <<polled, videos, cfg, unwritable, undeletable, write_errors,
                   cancel_flag, cancel_before_start, fi,
                   videos_with_transcripts, futures, all_transcripts, results,
                   fs, pk, combined_files, excess_content, bi>>

\* task.completed = True (lines 211 and 219); cleanup_old_tasks leaves a
\* task younger than an hour alone
CompleteTask ==
    /\ pc \in {"stored", "handled"}
    /\ task' = [task EXCEPT !.completed = TRUE]
    /\ pc' = "ended"
    /\ UNCHANGED <<polled, videos, cfg, unwritable, undeletable, write_errors,
                   cancel_flag, cancel_before_start, fi,
                   videos_with_transcripts, futures, all_transcripts, results,
                   fs, pk, combined_files, excess_content, bi>>

----------------------------------------------------------------------------
(* Inputs *)

Config(output_type, output_style, limit_value, token_limit, file_limit, filter_has_transcript, is_single_video) ==
    [output_type |-> output_type, output_style |-> output_style,
     limit_value |-> limit_value, token_limit |-> token_limit,
     file_limit |-> file_limit,
     filter_has_transcript |-> filter_has_transcript,
     is_single_video |-> is_single_video]

\* the records with the given costs, video ids 1..n
Records(costs) ==
    [k \in 1..Len(costs) |-> [video_id |-> k, token_count |-> costs[k]]]

\* n records whose costs repeat the seed
Repeat(seed, n) == [k \in 1..n |-> seed[((k - 1) % Len(seed)) + 1]]

\* a video: its id, the cost of its transcript, whether the requested
\* language is listed for it and whether its transcript can be downloaded
Video(id, kind) ==
    [id |-> id, token_count |-> kind.token_count, listed |-> kind.listed,
     downloadable |-> kind.downloadable]

VideoKinds ==
    {[token_count |-> 3000, listed |-> TRUE, downloadable |-> TRUE],
     [token_count |-> 12000, listed |-> TRUE, downloadable |-> TRUE],
     [token_count |-> 0, listed |-> FALSE, downloadable |-> FALSE]}

\* the packing parameters of a run: output_type, limit_value, token_limit,
\* file_limit
Packings ==
    {<<"token_limit", 5000, 0, 0>>, <<"both", 5000, 0, 0>>,
     <<"both", 5000, 2000, 0>>, <<"both", 5000, 0, 1>>}
    \cup {<<"file_limit", n, 0, 0>> : n \in 1..MaxFileLimit}
    \cup {<<"both", 4000, 5000, n>> : n \in 1..MaxFileLimit}

RunConfigs ==
    {Config(p[1], style, p[2], p[3], p[4], filter, FALSE) :
        p \in Packings, style \in {"combined", "both"}, filter \in BOOLEAN}
    \cup {Config("token_limit", "individual", 5000, 0, 0, filter, single) :
            filter \in BOOLEAN, single \in BOOLEAN}

\* an output directory in which every file can be written and removed
NoFaults == unwritable = {} /\ undeletable = {} /\ write_errors = {}

\* the state in which the routine is entered: process_transcripts
\* (routes.py) rejects an empty videos list
RunStart(kinds, c) ==
        /\ videos = [k \in 1..Len(kinds) |-> Video(k, kinds[k])]
        /\ cfg = c
        /\ pc = "start"
        /\ cancel_flag = FALSE
        /\ cancel_before_start = FALSE
        /\ fi = 0
        /\ videos_with_transcripts = <<>>
        /\ futures = <<>>
        /\ all_transcripts = <<>>
        /\ results = EmptyResults
        /\ fs = NoFiles
        /\ pk = IdlePacker
        /\ combined_files = <<>>
        /\ excess_content = <<>>
        /\ bi = 0

Init ==
    \E kinds \in SeqsUpTo(VideoKinds, MaxVideos), c \in RunConfigs :
        NoFaults /\ NoCallback /\ RunStart(kinds, c)

Next ==
    \/ Start \/ FilterVideo \/ FilterDone \/ Submit
    \/ (\E k \in DOMAIN futures : ProcessSingleVideo(k))
    \/ (\E k \in DOMAIN futures : Consume(k))
    \/ ExitPool \/ Shutdown \/ PrePack \/ SingleFile \/ IndividualFiles
    \/ Rollup \/ CombinedFiles
    \/ TokenLimitBatchStart \/ TokenLimitRecord \/ TokenLimitBatchEnd
    \/ TokenLimitReturn \/ CollectTokenLimit
    \/ FileLimitGroup \/ FileLimitGroupEnd \/ FileLimitMerge
    \/ FileLimitMergeEnd \/ FileLimitEmit \/ FileLimitReturn \/ CollectFileLimit
    \/ BothBatch \/ BothEnd \/ Final
    \/ CancelTask

Spec == Init /\ [][Next]_vars

\* The state of a channel run with output_style 'combined' when it reaches
\* the combined files (line 380), every video fetched, in the order given
PackingState(transcripts, c) ==
    /\ videos = [k \in 1..Len(transcripts) |->
                    [id |-> transcripts[k].video_id,
                     token_count |-> transcripts[k].token_count,
                     listed |-> TRUE, downloadable |-> TRUE]]
    /\ cfg = c
    /\ pc = "combined"
    /\ cancel_flag = FALSE
    /\ cancel_before_start = FALSE
    /\ fi = 0
    /\ videos_with_transcripts = <<>>
    /\ futures = [k \in 1..Len(transcripts) |-> "consumed"]
    /\ all_transcripts = transcripts
    /\ results = [EmptyResults EXCEPT
                    !.successful = Ids(transcripts),
                    !.output_files = <<CreateAllInOneFile(transcripts)>>]
    /\ fs = WriteFile(NoFiles, RollupPath, Ids(transcripts))
    /\ pk = IdlePacker
    /\ combined_files = <<>>
    /\ excess_content = <<>>
    /\ bi = 0

(* Strategy A on its own *)

TokenLimitCosts == {0, 3000, 4000, 5000, 9000, 160000}

TokenLimits == {8000, 200000}

LongSeeds == SeqsUpTo({0, 3000, 160000}, 2)

TokenLimitInputs ==
    SeqsUpTo(TokenLimitCosts, MaxRecords)
    \cup {Repeat(seed, n) : seed \in LongSeeds,
                            n \in BATCH_SIZE..(BATCH_SIZE + MaxExtra)}

InitTokenLimit ==
    \E costs \in TokenLimitInputs, limit \in TokenLimits :
        NoFaults /\ NoCallback /\
        PackingState(Records(costs),
                     Config("token_limit", "combined", limit, 0, 0, FALSE, FALSE))

NextTokenLimit ==
    \/ CombinedFiles
    \/ TokenLimitBatchStart \/ TokenLimitRecord \/ TokenLimitBatchEnd
    \/ TokenLimitReturn \/ CollectTokenLimit
    \/ Final

SpecTokenLimit == InitTokenLimit /\ [][NextTokenLimit]_vars

(* Strategy B on its own *)

FileLimitCosts == {0, 4000, 60000, 100000, 160000}

\* enough records below the solo threshold to fill a group up to the cap
FullGroup == (MAX_TOKENS_PER_FILE \div SOLO_THRESHOLD) + 1

FileLimitInputs ==
    SeqsUpTo(FileLimitCosts, MaxRecords)
    \cup {Repeat(<<SOLO_THRESHOLD>>, n) : n \in FullGroup..(FullGroup + MaxExtra)}

InitFileLimit ==
    \E costs \in FileLimitInputs, file_limit \in 1..MaxFileLimit :
        NoFaults /\ NoCallback /\
        PackingState(Records(costs),
                     Config("file_limit", "combined", file_limit, 0, 0, FALSE, FALSE))

NextFileLimit ==
    \/ CombinedFiles
    \/ FileLimitGroup \/ FileLimitGroupEnd \/ FileLimitMerge
    \/ FileLimitMergeEnd \/ FileLimitEmit \/ FileLimitReturn \/ CollectFileLimit
    \/ Final

SpecFileLimit == InitFileLimit /\ [][NextFileLimit]_vars

(* Strategy C on its own *)

BothCosts == {3000, 6000, 100000}

BothTokenLimits == {5000, 200000}

InitBoth ==
    \E costs \in SeqsUpTo(BothCosts, MaxBothRecords),
       token_limit \in BothTokenLimits, file_limit \in 1..MaxFileLimit :
        NoFaults /\ NoCallback /\
        PackingState(Records(costs),
                     Config("both", "combined", 4000, token_limit, file_limit,
                            FALSE, FALSE))

NextBoth == CombinedFiles \/ BothBatch \/ BothEnd \/ Final

SpecBoth == InitBoth /\ [][NextBoth]_vars

(* Strategy B with any file_limit from 0, every step eventually taken *)

MergeCosts == {60000, 100000}

InitMergePhase ==
    \E costs \in SeqsUpTo(MergeCosts, MaxRecords), file_limit \in 0..MaxFileLimit :
        NoFaults /\ NoCallback /\
        PackingState(Records(costs),
                     Config("file_limit", "combined", file_limit, 0, 0, FALSE, FALSE))

\* the routine and the packer run in one thread that is not suspended
\* for ever
SpecMergePhase ==
    InitMergePhase /\ [][NextFileLimit]_vars /\ WF_vars(NextFileLimit)

(* _estimate_token_count on its own *)

\* variant: the estimate is rounded up
EstimateTokenCountRoundsUp(text) == (Len(text) + 3) \div 4

\* _estimate_token_count (lines 493-503): len(text) // 4
EstimateTokenCount(text) == Len(text) \div 4

\* the texts of up to MaxTextLen characters, by length
Texts == {[k \in 1..n |-> "x"] : n \in 0..MaxTextLen}

\* two formatted transcripts wait for their estimate
InitEstimate ==
    \E first \in Texts, second \in Texts :
        /\ NoFaults /\ NoCallback
        /\ videos = <<[id |-> 1, formatted_text |-> first],
                      [id |-> 2, formatted_text |-> second]>>
        /\ cfg = Config("token_limit", "combined", 5000, 0, 0, FALSE, FALSE)
        /\ pc = "estimate"
        /\ cancel_flag = FALSE
        /\ cancel_before_start = FALSE
        /\ fi = 0
        /\ videos_with_transcripts = <<>>
        /\ futures = <<>>
        /\ all_transcripts = <<>>
        /\ results = EmptyResults
        /\ fs = NoFiles
        /\ pk = IdlePacker
        /\ combined_files = <<>>
        /\ excess_content = <<>>
        /\ bi = 0

\* token_count = self._estimate_token_count(formatted_text) (lines 1063-1071)
EstimateTokens ==
    /\ pc = "estimate"
    /\ fi < Len(videos)
    /\ all_transcripts' =
          Append(all_transcripts,
                 [video_id |-> videos[fi + 1].id,
                  token_count |->
                      EstimateTokenCount(videos[fi + 1].formatted_text)])
    /\ fi' = fi + 1
    /\ UNCHANGED <<task, polled>>
    /\ UNCHANGED <<videos, cfg, unwritable, undeletable, write_errors, pc,
                   cancel_flag, cancel_before_start, videos_with_transcripts,
                   futures, results, fs, pk, combined_files, excess_content, bi>>

NextEstimate == EstimateTokens

SpecEstimate == InitEstimate /\ [][NextEstimate]_vars

(* Strategy C in an output directory where files cannot be removed *)

\* the sets of paths whose os.remove raises
RemoveFaults ==
    {{}, {CombinedPath(2)}, {CombinedPath(2), CombinedPath(3)}}

InitMerge ==
    \E costs \in SeqsUpTo(BothCosts, MaxBothRecords),
       token_limit \in BothTokenLimits, file_limit \in 1..MaxFileLimit,
       stuck \in RemoveFaults :
        /\ unwritable = {} /\ undeletable = stuck /\ write_errors = {}
        /\ NoCallback
        /\ PackingState(Records(costs),
                        Config("both", "combined", 4000, token_limit,
                               file_limit, FALSE, FALSE))

SpecMerge == InitMerge /\ [][NextBoth]_vars

(* Runs in an output directory where one file cannot be written *)

\* the path whose open(path, 'w') raises
WriteFaultPaths ==
    {IndividualPath(1), RollupPath, CombinedPath(1), CombinedPath(2),
     LargePath(2), ExcessPath}

InitWriteError ==
    \E kinds \in SeqsUpTo(VideoKinds, MaxVideos),
       c \in {x \in RunConfigs : ~x.filter_has_transcript},
       p \in WriteFaultPaths :
        /\ unwritable = {p} /\ undeletable = {} /\ write_errors = {}
        /\ NoCallback
        /\ RunStart(kinds, c)

NextWriteError ==
    \/ Start \/ Submit
    \/ (\E k \in DOMAIN futures : ProcessSingleVideo(k))
    \/ (\E k \in DOMAIN futures : Consume(k))
    \/ ExitPool \/ PrePack \/ SingleFile \/ IndividualFiles
    \/ Rollup \/ CombinedFiles
    \/ TokenLimitBatchStart \/ TokenLimitRecord \/ TokenLimitBatchEnd
    \/ TokenLimitReturn \/ CollectTokenLimit
    \/ FileLimitGroup \/ FileLimitGroupEnd \/ FileLimitMerge
    \/ FileLimitMergeEnd \/ FileLimitEmit \/ FileLimitReturn \/ CollectFileLimit
    \/ BothBatch \/ BothEnd \/ Final

SpecWriteError == InitWriteError /\ [][NextWriteError]_vars

----------------------------------------------------------------------------
(* Properties *)

\* number of positions of the sequence s that hold x
Occurrences(s, x) == Cardinality({k \in 1..Len(s) : s[k] = x})

\* every record of transcripts is named exactly once in the artifacts
EachRecordOnce(artifacts, transcripts) ==
    /\ Len(ConcatVideos(artifacts)) = Len(transcripts)
    /\ \A k \in 1..Len(transcripts) :
          Occurrences(ConcatVideos(artifacts), transcripts[k].video_id) = 1

TokenLimitReturned == pk.fn = "token_limit" /\ pk.phase = "returned"

FileLimitReturned == pk.fn = "file_limit" /\ pk.phase = "returned"

IsLarge(artifact) == artifact.file_path.kind = "large_video"

\* C1: the artifacts returned by _process_by_token_limit for a non-empty
\* input and a limit > 0, their videos lists concatenated in output order,
\* are the input sequence: every record once, in the input order
C1_TokenLimitKeepsOrder ==
    TokenLimitReturned =>
        ConcatVideos(pk.output_files) = Ids(pk.transcripts)

\* C1 witness: a returned run over more than BATCH_SIZE records with a large
\* artifact between ordinary ones
C1_Witness ==
    /\ TokenLimitReturned
    /\ Len(pk.transcripts) > BATCH_SIZE
    /\ \E a, b, c \in 1..Len(pk.output_files) :
          /\ a < b /\ b < c
          /\ ~IsLarge(pk.output_files[a])
          /\ IsLarge(pk.output_files[b])
          /\ ~IsLarge(pk.output_files[c])

\* C9: _process_by_file_limit returns no more artifacts than records, and
\* at most file_limit artifacts when no merge was blocked by the cap
C9_FileLimitCount ==
    FileLimitReturned =>
        /\ Len(pk.output_files) <= Len(pk.transcripts)
        /\ (pk.blocked = 0 => Len(pk.output_files) <= pk.file_limit)

\* C9 witness: a returned run that merged groups, none blocked
C9_Witness ==
    /\ FileLimitReturned
    /\ pk.merged > 0 /\ pk.blocked = 0
    /\ Len(pk.output_files) = pk.file_limit

\* C10: _process_by_file_limit leaves a record out only in a run whose merge
\* phase discarded a group; otherwise every record is in exactly one
\* artifact, and no record is ever in two
C10_FileLimitOmitsOnlyOnDiscard ==
    FileLimitReturned =>
        /\ (pk.blocked = 0 => EachRecordOnce(pk.output_files, pk.transcripts))
        /\ \A k \in 1..Len(pk.transcripts) :
              Occurrences(ConcatVideos(pk.output_files),
                          pk.transcripts[k].video_id) <= 1

\* C10 witness: a returned run with a zero-cost record, merges and no discard
C10_Witness ==
    /\ FileLimitReturned
    /\ pk.blocked = 0 /\ pk.merged > 0
    /\ \E k \in 1..Len(pk.transcripts) : pk.transcripts[k].token_count = 0
    /\ EachRecordOnce(pk.output_files, pk.transcripts)

\* the packer of a channel run has returned its combined files
PackingDone ==
    /\ pc = "final"
    /\ ~cfg.is_single_video
    /\ cfg.output_style \in {"combined", "both"}

BothLimitsDone == PackingDone /\ cfg.output_type = "both" /\ BothLimits(cfg)

\* token_count of the input record with the given id
CostOf(video_id) ==
    (CHOOSE t \in Range(all_transcripts) : t.video_id = video_id).token_count

\* C2: under every strategy the token_count of the returned artifacts adds
\* up to the token_count of the input records, except in a file-limit run
\* that discarded a group
C2_TokenSumPreserved ==
    PackingDone =>
        \/ SumTokens(combined_files) = SumTokens(all_transcripts)
        \/ (pk.fn = "file_limit" /\ pk.blocked > 0)

\* C3: an artifact's token_count exceeds MAX_TOKENS_PER_FILE only if it
\* holds exactly one record that alone exceeds the cap
C3_CapExceededOnlyByLoneRecord ==
    PackingDone =>
        \A k \in 1..Len(combined_files) :
            combined_files[k].token_count > MAX_TOKENS_PER_FILE =>
                /\ Len(combined_files[k].videos) = 1
                /\ CostOf(combined_files[k].videos[1]) > MAX_TOKENS_PER_FILE

\* the routine is about to execute one of its cancellation checks: an
\* iteration of the filter loop, of the as_completed loop or of the
\* both-limits loop, or one of the checks of the emission phase
AtCheckpoint ==
    \/ (pc = "filter" /\ fi < Len(videos))
    \/ (pc = "consume" /\ \E k \in DOMAIN futures : futures[k] # "consumed")
    \/ pc \in {"pre_pack", "channel", "rollup", "combined", "both"}

\* a step of the routine itself (not of a worker or of cancel_task)
RoutineStep ==
    /\ <<pc, fi, futures, results, bi>>' # <<pc, fi, futures, results, bi>>
    /\ \A k \in DOMAIN futures : futures[k] = "running" => futures'[k] = "running"

\* the artifacts created so far, listed or not
ArtifactsCreated ==
    Range(results.output_files) \cup Range(combined_files)
    \cup (IF pk.fn \in {"token_limit", "file_limit"}
          THEN Range(pk.output_files) ELSE {})

\* C4 (state part): a report marked cancelled is being returned, and every
\* file on disk holds exactly the records of an artifact created for it
C4_CancelledReturns ==
    results.cancelled =>
        /\ pc \in {"shutdown", "done"}
        /\ \A p \in DOMAIN fs :
              \E a \in ArtifactsCreated : a.file_path = p /\ a.videos = fs[p]

\* C4 (step part): a check that finds the flag set marks the report
\* cancelled and returns, and no file changes once the report is marked
C4_CancelStops ==
    /\ (cancel_flag /\ AtCheckpoint /\ RoutineStep)
          => (results'.cancelled /\ pc' \in {"shutdown", "done"})
    /\ results.cancelled => fs' = fs

\* C4: once a cancellation check finds the flag set the run returns a
\* report with cancelled = true, writes no output file afterwards and
\* leaves no file holding part of a group
C4_CancellationCheckpoint == [](C4_CancelledReturns) /\ [][C4_CancelStops]_vars

\* C4 witness: a run cancelled after it had written files
C4_Witness ==
    /\ pc = "done" /\ results.cancelled
    /\ combined_files # <<>>
    /\ \E p \in DOMAIN fs : p.kind = "combined_part"

\* C5: if the flag is set before the routine's first step, the run returns
\* a report with cancelled = true and no output file, with or without the
\* filter, whatever the number of workers
C5_CancelledBeforeStart ==
    cancel_before_start =>
        /\ pc \in {"start", "filter", "submit", "consume", "shutdown", "done"}
        /\ results.output_files = <<>>
        /\ fs = NoFiles
        /\ (pc = "done" => results.cancelled)

\* C5 witness: such a run has returned, without the filter, with more than
\* one worker
C5_Witness ==
    /\ cancel_before_start /\ pc = "done"
    /\ ~cfg.filter_has_transcript
    /\ Len(futures) >= 2
    /\ results.cancelled /\ results.output_files = <<>>

\* C6: when the run returns, every file it wrote that is still on disk is
\* listed in the report's output_files
C6_WrittenFilesListed ==
    pc = "done" =>
        \A p \in DOMAIN fs :
            \E k \in 1..Len(results.output_files) :
                results.output_files[k].file_path = p

\* C7: with both limits the run returns at most file_limit ordinary
\* artifacts and at most one excess artifact
C7_AtMostFileLimitPlusExcess ==
    BothLimitsDone =>
        /\ Len(combined_files) - Len(excess_content) <= cfg.file_limit
        /\ Len(excess_content) <= 1

\* C8: with both limits and no cancellation every input record is in the
\* videos list of exactly one returned artifact
C8_EveryRecordInOneArtifact ==
    (BothLimitsDone /\ ~results.cancelled) =>
        EachRecordOnce(combined_files, all_transcripts)

----------------------------------------------------------------------------
(* The file-limit merge phase *)

C12_MergeSelectsTwoSmallest ==
    (pk.fn = "file_limit" /\ pk.phase = "merge" /\ MergeContinues(pk)) =>
        \A k \in 3..Len(pk.grouped_transcripts) :
            /\ pk.grouped_transcripts[1].token_count
                  <= pk.grouped_transcripts[k].token_count
            /\ pk.grouped_transcripts[2].token_count
                  <= pk.grouped_transcripts[k].token_count

----------------------------------------------------------------------------
(* The token-limit packer *)

\* the limit the caller's limit_value and the hard maximum allow
EffectiveLimit == Min(cfg.limit_value, MAX_TOKENS_PER_FILE)

\* the input of scenario 1: costs 5000, 3000, 4000 with limit 8000
Scenario1 ==
    /\ pk.transcripts = Records(<<5000, 3000, 4000>>)
    /\ cfg.limit_value = 8000

\* C13: every artifact of _process_by_token_limit that is not a large_video
\* artifact has token_count <= min(limit, MAX_TOKENS_PER_FILE), and a group
\* that reaches the limit exactly is not split: costs 5000, 3000, 4000 with
\* limit 8000 give the groups [5000, 3000] and [4000]
C13_OrdinaryWithinLimit ==
    TokenLimitReturned =>
        /\ \A a \in 1..Len(pk.output_files) :
              ~IsLarge(pk.output_files[a]) =>
                  pk.output_files[a].token_count <= EffectiveLimit
        /\ Scenario1 =>
              pk.output_files = <<Artifact(CombinedPath(1), <<1, 2>>, 8000),
                                  Artifact(CombinedPath(2), <<3>>, 4000)>>

\* C13 witness: scenario 1 has returned its two artifacts
C13_Witness ==
    /\ TokenLimitReturned /\ Scenario1
    /\ Len(pk.output_files) = 2
    /\ pk.output_files[1].token_count = EffectiveLimit

\* C14: a record whose cost exceeds the effective limit is alone in an
\* artifact large_video_{video_id} with the record's token_count; the
\* records before it are in the artifacts before that one, the records
\* after it in the artifacts after it; only such records get a large file
C14_LargeRecordAlone ==
    TokenLimitReturned =>
        /\ \A k \in 1..Len(pk.transcripts) :
              pk.transcripts[k].token_count > EffectiveLimit =>
                \E a \in 1..Len(pk.output_files) :
                    /\ pk.output_files[a] =
                          Artifact(LargePath(pk.transcripts[k].video_id),
                                   <<pk.transcripts[k].video_id>>,
                                   pk.transcripts[k].token_count)
                    /\ fs[pk.output_files[a].file_path]
                          = <<pk.transcripts[k].video_id>>
                    /\ ConcatVideos(SubSeq(pk.output_files, 1, a - 1))
                          = Ids(SubSeq(pk.transcripts, 1, k - 1))
                    /\ ConcatVideos(SubSeq(pk.output_files, a + 1,
                                           Len(pk.output_files)))
                          = Ids(SubSeq(pk.transcripts, k + 1, Len(pk.transcripts)))
        /\ \A a \in 1..Len(pk.output_files) :
              IsLarge(pk.output_files[a]) =>
                  /\ Len(pk.output_files[a].videos) = 1
                  /\ CostOf(pk.output_files[a].videos[1]) > EffectiveLimit

\* C14 witness: a returned run with an oversized record between two
\* ordinary ones
C14_Witness ==
    /\ TokenLimitReturned
    /\ \E k \in 2..(Len(pk.transcripts) - 1) :
          /\ pk.transcripts[k].token_count > EffectiveLimit
          /\ pk.transcripts[k - 1].token_count <= EffectiveLimit
          /\ pk.transcripts[k + 1].token_count <= EffectiveLimit
          /\ \E a \in 2..(Len(pk.output_files) - 1) :
                /\ pk.output_files[a].file_path
                      = LargePath(pk.transcripts[k].video_id)
                /\ ~IsLarge(pk.output_files[a - 1])
                /\ ~IsLarge(pk.output_files[a + 1])

\* C15: a group is sealed only when the next record would push it over the
\* effective limit, the next record is oversized or the input is exhausted:
\* of two consecutive ordinary artifacts the first one's token_count plus
\* the cost of the second one's first record exceeds the effective limit
C15_SealedOnlyOnBreach ==
    TokenLimitReturned =>
        \A a \in 1..(Len(pk.output_files) - 1) :
            (~IsLarge(pk.output_files[a]) /\ ~IsLarge(pk.output_files[a + 1])) =>
                pk.output_files[a].token_count
                    + CostOf(pk.output_files[a + 1].videos[1]) > EffectiveLimit

----------------------------------------------------------------------------
(* Runs without records *)

\* C16: a run left without videos (the filter removed every one) returns
\* normally with output_files, successful and failed empty and writes no
\* file, whatever output_type, output_style and mode
C16_EmptyRunReturnsEmpty ==
    (pc \notin {"start", "filter"} /\ videos = <<>>) =>
        /\ pc # "raised"
        /\ results.output_files = <<>>
        /\ results.successful = <<>>
        /\ results.failed = <<>>
        /\ fs = NoFiles

\* C17: _process_by_token_limit called with an empty list returns an empty
\* list: it does not raise and writes no file
C17_EmptyTokenLimitReturnsEmpty ==
    (pk.fn = "token_limit" /\ pk.transcripts = <<>>) =>
        /\ pk.phase # "raised"
        /\ pc # "raised"
        /\ pk.output_files = <<>>

----------------------------------------------------------------------------
(* The both-limits branch *)

\* the number (from 1) of the batch the both-limits loop is about to process
BatchNumber ==
    (bi \div TranscriptsPerFile(all_transcripts, cfg.file_limit)) + 1

\* C18: with both limits the records are split into batches of
\* max(1, len(records) // file_limit) records and the number of batches
\* never exceeds file_limit
C18_BatchesWithinFileLimit ==
    (pc = "both" /\ bi < Len(all_transcripts)) =>
        /\ bi % TranscriptsPerFile(all_transcripts, cfg.file_limit) = 0
        /\ BatchNumber <= cfg.file_limit

\* the files on disk written by a packer
PackerFiles ==
    [p \in {q \in DOMAIN fs :
               q.kind \in {"combined_part", "large_video", "excess_content"}}
        |-> fs[p]]

\* a channel run with output_type 'both' and a limit absent has returned
\* from its packer
FallbackDone ==
    /\ PackingDone
    /\ cfg.output_type = "both"
    /\ (cfg.token_limit = 0 \/ cfg.file_limit = 0)

\* C19: when output_type is 'both' and token_limit or file_limit is absent
\* the artifacts and files are exactly those of _process_by_token_limit on
\* the records with limit_value: no excess artifact, no warning
C19_FallbackIsTokenLimit ==
    FallbackDone =>
        /\ combined_files
              = ProcessByTokenLimit(all_transcripts, cfg.limit_value,
                                    NoFiles).output_files
        /\ PackerFiles
              = ProcessByTokenLimit(all_transcripts, cfg.limit_value, NoFiles).fs
        /\ excess_content = <<>>
        /\ results.warnings = <<>>
        /\ pk.fn = "token_limit"

\* C19 witness: such a run with file_limit alone supplied has returned two
\* artifacts
C19_Witness ==
    /\ FallbackDone
    /\ Len(combined_files) = 2
    /\ cfg.file_limit # 0

----------------------------------------------------------------------------
(* The report of the fetch stage *)

\* the ids the report names, successful then failed
ReportedIds ==
    results.successful \o [k \in 1..Len(results.failed) |-> results.failed[k].id]

\* the fetch loop has been left without a cancellation
FetchDone ==
    /\ pc \notin {"start", "filter", "submit", "consume", "shutdown"}
    /\ ~results.cancelled

\* C20 (state part): after the fetch stage of a run that is not cancelled
\* every video of the filtered list is in exactly one of successful and
\* failed, the videos whose fetch failed in failed with a reason
C20_EachVideoReportedOnce ==
    FetchDone =>
        /\ Len(ReportedIds) = Len(videos)
        /\ \A k \in 1..Len(videos) :
              /\ Occurrences(ReportedIds, videos[k].id) = 1
              /\ videos[k].downloadable
                    <=> (\E n \in 1..Len(results.successful) :
                            results.successful[n] = videos[k].id)
        /\ \A n \in 1..Len(results.failed) :
              results.failed[n].reason \in {"Transcript not available", "Error"}
        /\ Len(all_transcripts) = Len(results.successful)

\* C20 (step part): processing a result, failed or not, leaves the run in
\* the fetch loop, from which it goes on to the packing stage
C20_FailureKeepsRunning ==
    (pc = "consume" /\ ~cancel_flag) => pc' \in {"consume", "pre_pack"}

\* C20: in a run that is not cancelled each video is recorded in exactly
\* one of successful and failed; a fetch that returns nothing or raises
\* adds a failed entry with a reason and does not stop the run
C20_FailuresPerVideo ==
    [](C20_EachVideoReportedOnce) /\ [][C20_FailureKeepsRunning]_vars

\* C20 witness: a run with a fetch that raised and a successful one has
\* reached the end of its packing stage
C20_Witness ==
    /\ pc = "final" /\ ~results.cancelled
    /\ results.successful # <<>>
    /\ \E n \in 1..Len(results.failed) : results.failed[n].reason = "Error"
    /\ \E n \in 1..Len(results.output_files) :
          results.output_files[n].file_path.kind = "combined_part"

----------------------------------------------------------------------------
(* Write failures *)

\* C21: an open(path, 'w') that raises for any output file leaves the
\* routine as an exception (the run ends as a run-level error); no run goes
\* on after a failed write
C21_WriteErrorEndsRun ==
    write_errors # {} => pc = "raised"

----------------------------------------------------------------------------
(* The cancellation flag *)

\* C22: the cancellation flag only ever changes from false to true, and
\* the step that changes it is a cancel request: it is no step of the
\* processing routine, of a packer or of a fetch worker
C22_FlagSetOnlyByCancelTask ==
    [][cancel_flag' # cancel_flag =>
          /\ ~cancel_flag /\ cancel_flag'
          /\ UNCHANGED <<videos, pc, fi, videos_with_transcripts, futures,
                         all_transcripts, results, fs, pk, combined_files,
                         excess_content, bi>>]_vars

\* C22 witness: a run returned as cancelled with the flag still set, after
\* a worker and the routine had read it
C22_Witness ==
    /\ cancel_flag /\ ~cancel_before_start
    /\ pc = "done" /\ results.cancelled
    /\ \E k \in DOMAIN futures : futures[k] = "cancelled"

----------------------------------------------------------------------------
(* The order of the records *)

\* position in the videos list of the video with the given id
PositionOf(video_id) == CHOOSE k \in 1..Len(videos) : videos[k].id = video_id

\* C23: the records handed to the packer are in the input order of the
\* videos, whatever order the fetch workers complete in
C23_PackerGetsInputOrder ==
    FetchDone =>
        \A a, b \in 1..Len(all_transcripts) :
            a < b => PositionOf(all_transcripts[a].video_id)
                        < PositionOf(all_transcripts[b].video_id)

----------------------------------------------------------------------------
(* Token counts *)

\* the costs of the input records with the given ids, added up
RECURSIVE CostSum(_)
CostSum(video_ids) ==
    IF video_ids = <<>> THEN 0
    ELSE CostOf(video_ids[1]) + CostSum(Tail(video_ids))

\* the artifact, or the batch being filled, counts exactly the records it names
CountsItsRecords(a) == a.token_count = CostSum(a.videos)

\* every artifact the run holds: listed in the report, returned by a
\* packer or by a helper of the both-limits branch, or still local
ArtifactsHeld ==
    Range(results.output_files) \cup Range(combined_files)
    \cup Range(excess_content)
    \cup (IF pk.fn \in {"token_limit", "file_limit"}
          THEN Range(pk.output_files) ELSE {})
    \cup (IF pk.fn = "both_limits"
          THEN Range(pk.token_limited_files) \cup Range(pk.excess_files)
          ELSE {})

\* C24: the token_count of every artifact (of a packer, the rollup, the
\* excess artifact) is the sum of the costs of the records in its videos
\* list, and so is the running total of the batch or group being filled
\* and of every group formed
C24_TokenCountIsSumOfRecords ==
    /\ \A a \in ArtifactsHeld : CountsItsRecords(a)
    /\ pk.fn = "token_limit" => CountsItsRecords(pk.current_batch)
    /\ pk.fn = "file_limit" =>
          /\ pk.current_group_tokens = SumTokens(pk.current_group)
          /\ \A k \in 1..Len(pk.grouped_transcripts) :
                pk.grouped_transcripts[k].token_count
                   = SumTokens(pk.grouped_transcripts[k].transcripts)

\* C24 witness: a run has returned a rollup and a combined file of two
\* records with costs above zero
C24_Witness ==
    /\ pc = "done" /\ ~results.cancelled
    /\ \E a \in Range(results.output_files) :
          a.file_path.kind = "all_transcripts" /\ Len(a.videos) = 2
    /\ \E a \in Range(results.output_files) :
          /\ a.file_path.kind = "combined_part"
          /\ Len(a.videos) = 2 /\ a.token_count > 0

----------------------------------------------------------------------------
(* _combine_excess_files *)

\* the contents of the artifacts' files in the file system given, in order
RECURSIVE ConcatContents(_, _)
ConcatContents(files, artifacts) ==
    IF artifacts = <<>> THEN <<>>
    ELSE files[artifacts[1].file_path] \o ConcatContents(files, Tail(artifacts))

\* the both-limits loop has called _combine_excess_files
MergeCalled == pk.fn = "both_limits" /\ pk.excess_files # <<>>

\* C25: _combine_excess_files returns, whether or not a removal failed, one
\* artifact at excess_content.txt whose videos are the inputs' videos in
\* order and whose token_count is the sum of theirs; the file holds the
\* inputs' contents in order, and every input file whose removal did not
\* fail is gone
C25_MergeCombinesAndRemoves ==
    MergeCalled =>
        /\ pk.phase = "break"
        /\ excess_content
              = <<Artifact(ExcessPath, ConcatVideos(pk.excess_files),
                           SumTokens(pk.excess_files))>>
        /\ ExcessPath \in DOMAIN fs
        /\ fs[ExcessPath] = ConcatContents(pk.files, pk.excess_files)
        /\ \A k \in 1..Len(pk.excess_files) :
              pk.excess_files[k].file_path \in DOMAIN fs
                 <=> pk.excess_files[k].file_path \in undeletable

\* C25 witness: a merge of two files, one of which could not be removed
C25_Witness ==
    /\ MergeCalled /\ pk.phase = "break"
    /\ Len(pk.excess_files) >= 2
    /\ \E a, b \in 1..Len(pk.excess_files) :
          /\ pk.excess_files[a].file_path \in undeletable
          /\ pk.excess_files[b].file_path \notin undeletable
    /\ excess_content # <<>>

----------------------------------------------------------------------------
(* _estimate_token_count *)

\* the estimate made for the k-th text
EstimateOf(k) == all_transcripts[k].token_count

\* C26: the estimate of a text is floor(len(text) / 4), 0 for the empty
\* text; every text gets an estimate, and of two texts the longer never
\* gets the smaller estimate
C26_EstimateIsFloorOfQuarter ==
    /\ Len(all_transcripts) = fi
    /\ \A k \in 1..Len(all_transcripts) :
          LET n == Len(videos[k].formatted_text)
          IN /\ EstimateOf(k) \in Nat
             /\ 4 * EstimateOf(k) <= n
             /\ n < 4 * (EstimateOf(k) + 1)
             /\ (n = 0 => EstimateOf(k) = 0)
    /\ \A a, b \in 1..Len(all_transcripts) :
          Len(videos[a].formatted_text) <= Len(videos[b].formatted_text)
             => EstimateOf(a) <= EstimateOf(b)

\* C26 witness: the empty text and a text whose length is no multiple of 4
\* have been estimated
C26_Witness ==
    /\ pc = "estimate" /\ Len(all_transcripts) = 2
    /\ videos[1].formatted_text = <<>> /\ EstimateOf(1) = 0
    /\ Len(videos[2].formatted_text) = 7 /\ EstimateOf(2) = 1

----------------------------------------------------------------------------
(* Cancellation inside the packers *)

\* C27: once the flag is set while _process_by_token_limit or
\* _process_by_file_limit is running, no further file is written and the
\* routine leaves the packer only to return a report with cancelled = true
C27_PackerStopsOnCancel ==
    [][(cancel_flag /\ pc \in {"token_limit", "file_limit"}) =>
          /\ fs' = fs
          /\ (pc' # pc => (pc' = "done" /\ results'.cancelled))]_vars

----------------------------------------------------------------------------
(* _process_batch_by_token_limit against _process_by_token_limit *)

\* the videos lists of the artifacts, in order
Groups(artifacts) == [k \in 1..Len(artifacts) |-> artifacts[k].videos]

\* C28: the groups _process_batch_by_token_limit makes of a batch whose
\* cost exceeds token_limit are the groups _process_by_token_limit makes of
\* that batch with the same limit
C28_BatchPackedAsTokenLimit ==
    (pk.fn = "both_limits" /\ pk.token_limited_files # <<>>) =>
        Groups(pk.token_limited_files)
           = Groups(ProcessByTokenLimit(pk.batch, cfg.token_limit,
                                        NoFiles).output_files)

----------------------------------------------------------------------------
(* The excess artifact and its warning *)

\* the positions of the report's output_files that hold an excess artifact
ExcessListed ==
    {k \in 1..Len(results.output_files) :
        results.output_files[k].file_path = ExcessPath}

\* C29: with both limits at most one excess artifact is produced in a run;
\* once it is produced the loop is left and the report has exactly one
\* warning, which names its path; it is the last artifact of the returned
\* output; a run that produces none has no warning
C29_ExcessOnceLastWithWarning ==
    /\ Len(excess_content) <= 1
    /\ excess_content = <<>> =>
          results.warnings = <<>> /\ ExcessListed = {}
    /\ excess_content # <<>> =>
          /\ pc \in {"both_end", "final", "done"}
          /\ results.warnings = <<excess_content[1].file_path>>
          /\ excess_content[1].file_path = ExcessPath
          /\ pc \in {"final", "done"} =>
                /\ ExcessListed = {Len(results.output_files)}
                /\ results.output_files[Len(results.output_files)]
                      = excess_content[1]

\* C29 witness: a run has returned combined files and an excess artifact
\* made of two files
C29_Witness ==
    /\ pc = "done" /\ excess_content # <<>>
    /\ Len(excess_content[1].videos) >= 2
    /\ Len(results.output_files) >= 4
    /\ results.warnings # <<>>

----------------------------------------------------------------------------
(* Termination of the merge loop *)

\* the merge loop of _process_by_file_limit is being executed
InMergeLoop == pk.fn = "file_limit" /\ pk.phase = "merge"

\* C30 (step part): an iteration of the merge loop leaves one group less,
\* by one merge or by one discard
C30_IterationRemovesOneGroup ==
    (InMergeLoop /\ pk'.phase = "merge" /\ pk' # pk) =>
        /\ Len(pk'.grouped_transcripts) = Len(pk.grouped_transcripts) - 1
        /\ pk'.merged + pk'.blocked = pk.merged + pk.blocked + 1

\* C30 (state part): after the loop there are at most max(file_limit, 1)
\* groups
C30_EndsWithinLimit ==
    (pk.fn = "file_limit" /\ pk.phase \in {"emit", "returned"}) =>
        Len(pk.grouped_transcripts) <= Max(pk.file_limit, 1)

\* C30: the merge loop of _process_by_file_limit terminates: each
\* iteration reduces the number of groups by exactly one, by merging or by
\* discarding, the loop is always left, and it is left with at most
\* max(file_limit, 1) groups
C30_MergeLoopTerminates ==
    /\ [][C30_IterationRemovesOneGroup]_vars
    /\ [](C30_EndsWithinLimit)
    /\ (InMergeLoop ~> (pk.fn = "file_limit" /\ pk.phase = "emit"))

\* C30 witness: with file_limit 0 the loop was left with one group after a
\* merge and a discard
C30_Witness ==
    /\ pk.fn = "file_limit" /\ pk.phase = "emit"
    /\ pk.file_limit = 0
    /\ pk.merged > 0 /\ pk.blocked > 0
    /\ Len(pk.grouped_transcripts) = 1

----------------------------------------------------------------------------
(* The batch loop of the both-limits branch on its own, with the cancel   *)
(* request                                                                 *)

BatchLoopCosts == {3000, 6000}

InitBatchLoop ==
    \E costs \in SeqsUpTo(BatchLoopCosts, MaxRecords),
       token_limit \in BothTokenLimits, file_limit \in 1..MaxFileLimit :
        NoFaults /\ NoCallback /\
        PackingState(Records(costs),
                     Config("both", "combined", 4000, token_limit, file_limit,
                            FALSE, FALSE))

NextBatchLoop == NextBoth \/ CancelTask

\* the routine runs in one thread that is not suspended for ever; the
\* cancel request may never come. The last conjunct is weak fairness of
\* BothBatch with its enabling condition written out.
SpecBatchLoop ==
    InitBatchLoop /\ [][NextBatchLoop]_vars
    /\ WF_vars(CombinedFiles) /\ WF_vars(BothEnd) /\ WF_vars(Final)
    /\ ([]<>(~BothBatchEnabled) \/ []<><<BothBatch>>_vars)

----------------------------------------------------------------------------
(* A task: process_transcripts creates the task and starts process_videos *)
(* with progress_callback = task.update_progress; cancel_task may be      *)
(* called at any time                                                      *)

\* the requests of the tasks: one per output type and style, with and
\* without the filter, and a single video
TaskConfigs ==
    {Config("token_limit", "combined", 5000, 0, 0, FALSE, FALSE),
     Config("file_limit", "both", 1, 0, 0, TRUE, FALSE),
     Config("both", "combined", 4000, 5000, 2, FALSE, FALSE),
     Config("token_limit", "individual", 5000, 0, 0, FALSE, TRUE)}

InitTask ==
    \E kinds \in SeqsUpTo(VideoKinds, MaxVideos), c \in TaskConfigs :
        /\ NoFaults
        /\ task = NewTask /\ polled = {<<0, 0>>}
        /\ RunStart(kinds, c)

NextTask == Next \/ StoreResults \/ HandleError \/ CompleteTask

\* the steps of the process_videos thread, the loop of BothBatch apart
ProcessVideos ==
    \/ Start \/ FilterVideo \/ FilterDone \/ Submit
    \/ (\E k \in DOMAIN futures : Consume(k))
    \/ ExitPool \/ Shutdown \/ PrePack \/ SingleFile \/ IndividualFiles
    \/ Rollup \/ CombinedFiles
    \/ TokenLimitBatchStart \/ TokenLimitRecord \/ TokenLimitBatchEnd
    \/ TokenLimitReturn \/ CollectTokenLimit
    \/ FileLimitGroup \/ FileLimitGroupEnd \/ FileLimitMerge
    \/ FileLimitMergeEnd \/ FileLimitEmit \/ FileLimitReturn \/ CollectFileLimit
    \/ BothEnd \/ Final
    \/ StoreResults \/ HandleError \/ CompleteTask

\* the thread of process_videos is not suspended for ever and every
\* transcript fetch terminates; the cancel request may never come. The last
\* conjunct is weak fairness of BothBatch with its enabling condition
\* written out.
SpecTask ==
    InitTask /\ [][NextTask]_vars
    /\ WF_vars(ProcessVideos)
    /\ WF_vars(\E k \in DOMAIN futures : ProcessSingleVideo(k))
    /\ ([]<>(~BothBatchEnabled) \/ []<><<BothBatch>>_vars)

\* the number of values of range(0, n, step), step >= 1 (lines 412, 425)
BatchCount(n, step) == (n + step - 1) \div step

\* the batches of the both-limits loop: all_transcripts[i:i + step] for i
\* in range(0, len(all_transcripts), step) (lines 412, 420)
LoopBatches(transcripts, step) ==
    [k \in 1..BatchCount(Len(transcripts), step) |->
        Slice(transcripts, (k - 1) * step, k * step)]

RECURSIVE Flatten(_)
Flatten(ss) == IF ss = <<>> THEN <<>> ELSE Head(ss) \o Flatten(Tail(ss))

\* the both-limits branch is about to run or runs its batch loop
InBatchLoop ==
    /\ pc \in {"combined", "both"}
    /\ cfg.output_type = "both" /\ BothLimits(cfg)

\* C31 (batch size): transcripts_per_file is at least 1, also with fewer
\* records than file_limit
C31_BatchSizeAtLeastOne ==
    InBatchLoop => TranscriptsPerFile(all_transcripts, cfg.file_limit) >= 1

\* C31 (partition): the batches of the loop are non-empty, pairwise
\* disjoint and together are the record list: every record is in exactly
\* one batch
C31_BatchesPartition ==
    InBatchLoop =>
        LET bs == LoopBatches(all_transcripts,
                              TranscriptsPerFile(all_transcripts, cfg.file_limit))
        IN /\ Flatten(bs) = all_transcripts
           /\ \A k \in 1..Len(bs) : bs[k] # <<>>
           /\ \A j, k \in 1..Len(bs) :
                 j # k => Range(Ids(bs[j])) \cap Range(Ids(bs[k])) = {}

\* C31 (step): an iteration that passes the cancellation check takes the
\* next batch of the partition, and the loop index grows when the loop
\* goes on
C31_IterationTakesNextBatch ==
    (pc = "both" /\ pk' # pk) =>
        LET bs == LoopBatches(all_transcripts,
                              TranscriptsPerFile(all_transcripts, cfg.file_limit))
            before == IF pk.fn = "both_limits" THEN pk.batch_number ELSE 0
        IN /\ pk'.batch_number = before + 1
           /\ pk'.batch_number \in 1..Len(bs)
           /\ pk'.batch = bs[pk'.batch_number]
           /\ pc' = "both" => bi' > bi

\* C31 (exhaustion): a loop that ends by exhausting its range has taken
\* every batch
C31_ExhaustedLoopTookAll ==
    (pc = "both_end" /\ pk.fn = "both_limits" /\ pk.phase = "next") =>
        pk.batch_number =
            BatchCount(Len(all_transcripts),
                       TranscriptsPerFile(all_transcripts, cfg.file_limit))

\* C31: the batch loop of the both-limits branch terminates for every
\* record count and every file_limit >= 1, also with fewer records than
\* file_limit: the batch size is never below 1, the batches are disjoint
\* and every record belongs to exactly one batch, and the loop takes them
\* one after the other until it is left
C31_BatchLoopTerminates ==
    /\ [](C31_BatchSizeAtLeastOne)
    /\ [](C31_BatchesPartition)
    /\ [][C31_IterationTakesNextBatch]_vars
    /\ [](C31_ExhaustedLoopTookAll)
    /\ (pc = "both" ~> pc # "both")

\* C31 witness: with one record and file_limit 2 the loop ran its single
\* batch of one record and was left
C31_Witness ==
    /\ pc = "both_end"
    /\ Len(all_transcripts) < cfg.file_limit
    /\ pk.fn = "both_limits" /\ pk.phase = "next"
    /\ pk.batch_number = 1 /\ Len(pk.batch) = 1

\* the positions of results['output_files'] that hold all_transcripts.txt
RollupPositions ==
    {k \in 1..Len(results.output_files) :
        results.output_files[k].file_path = RollupPath}

\* the routine has returned the report of a channel run that is not marked
\* cancelled and has a fetched transcript
ChannelRunReported ==
    /\ pc = "done"
    /\ ~results.cancelled
    /\ ~cfg.is_single_video
    /\ results.successful # <<>>

\* C32: the report of a channel run that is not cancelled and fetched at
\* least one transcript lists exactly one all_transcripts.txt artifact,
\* under every output style; its videos are report.successful in the same
\* order, its token_count is the sum over all fetched records, whatever the
\* limits of the request, and the file holds these records
C32_OneRollupOfAllRecords ==
    ChannelRunReported =>
        /\ Cardinality(RollupPositions) = 1
        /\ \A k \in RollupPositions :
              /\ results.output_files[k].videos = results.successful
              /\ results.output_files[k].token_count = CostSum(results.successful)
        /\ RollupPath \in DOMAIN fs
        /\ fs[RollupPath] = results.successful

\* C32 witness: an individual-style run returned a rollup of two records
\* whose token count is above the limit of the request
C32_Witness ==
    /\ ChannelRunReported
    /\ cfg.output_style = "individual"
    /\ Len(results.successful) = 2
    /\ \E k \in RollupPositions :
          results.output_files[k].token_count > cfg.limit_value

\* the workers whose result says that they saw the flag set (lines 1047-1055)
SawFlagSet == {k \in DOMAIN futures : futures[k] = "cancelled"}

\* C38: under every interleaving of the workers, the consumer loop and the
\* cancel request, report.failed has no entry with the reason 'Operation
\* cancelled': the result of a worker that saw the flag set is never
\* recorded, it stays unread in its future
C38_NoCancelledFailure ==
    /\ \A n \in 1..Len(results.failed) :
          results.failed[n].reason # "Operation cancelled"
    /\ SawFlagSet # {} => cancel_flag

\* C38 witness: the routine returned a cancelled report with a recorded
\* failure while a worker had seen the flag set
C38_Witness ==
    /\ pc = "done" /\ results.cancelled
    /\ SawFlagSet # {}
    /\ results.failed # <<>>

\* the artifact is a combined_part_{index}.txt file
IsCombinedPart(artifact) == artifact.file_path.kind = "combined_part"

\* C34: in a run of _process_by_token_limit over records with distinct
\* video ids the artifacts listed so far have pairwise distinct paths: the
\* combined_part index grows strictly from each group to the next, within
\* a batch of BATCH_SIZE records and across batches, also with large
\* artifacts between them, and each listed file still holds the records of
\* its own group
C34_TokenLimitPathsDistinct ==
    pk.fn = "token_limit" =>
        /\ \A j, k \in 1..Len(pk.output_files) :
              j < k =>
                 /\ pk.output_files[j].file_path # pk.output_files[k].file_path
                 /\ (IsCombinedPart(pk.output_files[j])
                       /\ IsCombinedPart(pk.output_files[k]))
                    => pk.output_files[j].file_path.n < pk.output_files[k].file_path.n
        /\ \A k \in 1..Len(pk.output_files) :
              /\ pk.output_files[k].file_path \in DOMAIN fs
              /\ fs[pk.output_files[k].file_path] = pk.output_files[k].videos

\* C34 witness: a run over more than BATCH_SIZE records returned with a
\* large artifact between two combined files whose indices are not
\* consecutive
C34_Witness ==
    /\ TokenLimitReturned
    /\ Len(pk.transcripts) > BATCH_SIZE
    /\ \E j, k \in 1..Len(pk.output_files) :
          /\ j + 1 < k
          /\ IsCombinedPart(pk.output_files[j])
          /\ IsCombinedPart(pk.output_files[k])
          /\ \A m \in (j + 1)..(k - 1) : IsLarge(pk.output_files[m])
          /\ pk.output_files[k].file_path.n > pk.output_files[j].file_path.n + 1

\* C35: the artifacts a both-limits run returns have pairwise distinct
\* paths and every listed file exists at the return and holds the records
\* of its videos list: no file of a batch is overwritten by a later batch
\* or removed by the excess merge while it is listed
C35_BothLimitsFilesHeld ==
    BothLimitsDone =>
        /\ \A j, k \in 1..Len(combined_files) :
              j # k => combined_files[j].file_path # combined_files[k].file_path
        /\ \A k \in 1..Len(combined_files) :
              /\ combined_files[k].file_path \in DOMAIN fs
              /\ fs[combined_files[k].file_path] = combined_files[k].videos

\* C36: at every progress report, and in every state of the task between
\* the assignments of update_progress, 0 <= progress <= total (the percent
\* of get_info never exceeds 100), under every output type
C36_ProgressWithinTotal ==
    task # NoTask =>
        /\ 0 <= task.progress /\ task.progress <= task.total
        /\ \A pt \in polled : 0 <= pt[1] /\ pt[1] <= pt[2]

\* C37: whenever a task is completed with a report and task.cancelled is
\* true, the report's cancelled field is true: no accepted cancel request
\* is followed by a report of a run that is not cancelled
C37_CancelledTaskHasCancelledReport ==
    (task # NoTask /\ task.completed /\ task.results # NoResults
        /\ task.cancelled) => task.results.cancelled

\* C39: once the task has completed = true, its status, its cancelled
\* field and its results never change again: a cancel request after the
\* completion changes nothing, and an error status is kept
C39_CompletedTaskIsFrozen ==
    [][(task # NoTask /\ task.completed) =>
          /\ task'.completed
          /\ task'.status = task.status
          /\ task'.cancelled = task.cancelled
          /\ task'.results = task.results]_vars

\* C33: every task eventually has completed = true, after a normal
\* return, after a cancellation and after an exception of the routine, and
\* it stays completed; a cancel request does not keep it from completing
C33_TaskCompletes ==
    /\ <>[](task.completed)
    /\ [](task.cancelled => <>task.completed)

\* C33 witness: a task is completed after a cancel request that the routine
\* observed
C33_Witness ==
    /\ task # NoTask /\ task.completed /\ task.cancelled
    /\ task.results # NoResults /\ task.results.cancelled

====
